---- MODULE Spec2Model ----
(***************************************************************************)
(* Driver-station protocol core: the control loop of                       *)
(* src-tauri/src/protocol/connection.rs (protocol_loop), its wire codec    *)
(* (build_outbound_packet, parse_inbound_packet) and the types of          *)
(* src-tauri/src/protocol/types.rs.                                        *)
(*                                                                         *)
(* One action per branch of the tokio::select! in protocol_loop; the       *)
(* command branch is split into one action per DsCommand variant.  Time    *)
(* is the wall clock read by last_recv.elapsed(): the model keeps the      *)
(* elapsed time since last_recv in milliseconds and advances it in steps   *)
(* of TimeStep.                                                            *)
(*                                                                         *)
(* Spec is the control loop under its commands; SpecWrap runs it past the  *)
(* wrap of the u16 sequence number; SpecTarget exercises the target        *)
(* address, SpecEncode the outbound codec over joystick snapshots (written *)
(* by src-tauri/src/gamepad/manager.rs) and SpecDecode the inbound codec   *)
(* over datagrams of every shape.                                          *)
(*                                                                         *)
(* SpecTelemetry is the TCP telemetry reader of src-tauri/src/logging.rs   *)
(* (console_log_listener, read_console_stream) over byte streams of        *)
(* framed records, and SpecShutdown the same reader under fair scheduling. *)
(* SpecLoop is the control loop with what it can wait for: the event       *)
(* channel and the lock of the joystick vector.  SpecGamepad is the slot   *)
(* and lock bookkeeping of the gamepad manager, SpecReorder the same       *)
(* manager under reorder_gamepads with every kind of index pair, and       *)
(* SpecInput the manager under button and axis events.                     *)
(*                                                                         *)
(* SpecDiscovery is a call of discover_roborio                             *)
(* (src-tauri/src/discovery.rs) under fair scheduling, and SpecConfig the  *)
(* handlers set_team_number and set_target_ip of                           *)
(* src-tauri/src/commands/config.rs running concurrently in front of the   *)
(* command queue.                                                          *)
(***************************************************************************)
EXTENDS Integers, Sequences, FiniteSets, TLC

VARIABLES
    ds_state,       \* DsState owned by protocol_loop
    robot_state,    \* RobotState filled from inbound frames
    sequence,       \* u16 outbound sequence number
    last_recv,      \* milliseconds elapsed since last_recv (last_recv.elapsed())
    send_socket,    \* TRUE iff send_socket is Some (bind of 0.0.0.0:0 succeeded)
    recv_socket,    \* TRUE iff recv_socket is Some (bind of 0.0.0.0:1150 succeeded)
    target_ip,      \* target address: four octets
    pkt,            \* the frame handed to send_to by this step (NoPkt if none)
    frames,         \* number of frames built so far
    last_seq,       \* sequence number of the previous frame (-1 before the first)
    oneshot_cmds,   \* RebootRio / RestartCode commands applied since the previous frame
    scenario,       \* progress through "EStop, RebootRio, frame, frame"
    last_op,        \* the step just taken: select! branch, its argument (command
                    \* argument or datagram), and the DsState before it
    joystick_state, \* the shared Vec<JoystickState> written by the gamepad manager
    diag,           \* DiagnosticData filled from inbound tag records
    listener,       \* console_log_listener: where it waits, the address it dials
                    \* and the size field of the record being read
    target_ip_rx,   \* watch::Receiver<String>: latest address and its changed mark
    shutdown_rx,    \* watch::Receiver<bool>: latest value and its changed mark
    stream,         \* the TcpStream: bytes received on it and the read position
    power,          \* PowerData of read_console_stream
    timer,          \* TRUE iff the deadline of the pending sleep has passed
    sending,        \* the message of the pending mpsc send (NoMessage if none)
    delivered,      \* the message accepted by its channel in this step
    published,      \* the latest PowerData accepted by power_tx
    event_tx,       \* number of DsEvents queued in the event channel
    loop_pc,        \* where protocol_loop waits: its select!, a send on
                    \* event_tx, or the read lock of joystick_state
    joystick_lock,  \* "write" while sync_joystick_state holds the write lock
    gamepads,       \* GamepadManager.gamepads: gilrs_id, name, slot, state and
                    \* D-pad latches of each
    locked_slots,   \* GamepadManager.locked_slots: the pairs <<slot, name>>
    discovery,      \* a call of discover_roborio: where it is, its team, whether
                    \* the 5 s deadline has passed, and what result_tx received
    cmd_tx,         \* the DsCommands queued in the command channel
    invocations     \* the commands whose handler has yet to queue them

\* The state of protocol_loop and of the shared joystick vector
control_vars == <<ds_state, robot_state, sequence, last_recv, send_socket,
                  recv_socket, target_ip, pkt, frames, last_seq, oneshot_cmds,
                  scenario, last_op, joystick_state, diag>>

\* The state of the telemetry reader
telemetry_vars == <<listener, target_ip_rx, shutdown_rx, stream, power, timer,
                    sending, delivered, published>>

\* What protocol_loop may wait for
loop_vars == <<event_tx, loop_pc, joystick_lock>>

\* The state of the gamepad manager
gamepad_vars == <<gamepads, locked_slots>>

\* The callers of the core: a discovery call and the configuration commands
host_vars == <<discovery, cmd_tx, invocations>>

\* The state that the steps of protocol_loop leave alone
other_vars == <<telemetry_vars, event_tx, joystick_lock, gamepad_vars,
                host_vars>>

vars == <<control_vars, telemetry_vars, loop_vars, gamepad_vars, host_vars>>

\* _team_number is written by SetTeamNumber and never read: it is not kept.

----------------------------------------------------------------------------
(* Bounds of the model *)

MaxTicks == 3
MaxElapsed == 1500
TimeStep == 500
WrapTicks == 65538

(* Program constants *)

WatchdogMs == 1000
U16 == 65536
RobotPort == 1110
MinFrameLen == 7

----------------------------------------------------------------------------
(* Types (protocol/types.rs) *)

Mode == {"Teleoperated", "Autonomous", "Test"}

Alliance == {"Red1", "Red2", "Red3", "Blue1", "Blue2", "Blue3"}

\* Mode::to_bits
to_bits(mode) ==
    CASE mode = "Teleoperated" -> 0
      [] mode = "Autonomous"   -> 2
      [] mode = "Test"         -> 1

\* bits & mask for the masks the codec uses (single bits and 0x03)
BitSet(byte, k) == (byte \div (2 ^ k)) % 2 = 1

\* Mode::from_bits
from_bits(bits) ==
    CASE bits % 4 = 2 -> "Autonomous"
      [] bits % 4 = 1 -> "Test"
      [] OTHER        -> "Teleoperated"

\* Alliance::to_byte
to_byte(alliance) ==
    CASE alliance = "Red1"  -> 0
      [] alliance = "Red2"  -> 1
      [] alliance = "Red3"  -> 2
      [] alliance = "Blue1" -> 3
      [] alliance = "Blue2" -> 4
      [] alliance = "Blue3" -> 5

\* RobotState::default(); battery_voltage is kept in units of 1/256 V
RobotStateDefault ==
    [connected |-> FALSE, code_running |-> FALSE, enabled |-> FALSE,
     estopped |-> FALSE, mode |-> "Teleoperated", battery_voltage |-> 0,
     brownout |-> FALSE, fms_connected |-> FALSE, sequence_number |-> 0]

\* DsState::default()
DsStateDefault ==
    [mode |-> "Teleoperated", enabled |-> FALSE, estop |-> FALSE,
     alliance |-> "Red1", request_reboot |-> FALSE,
     request_restart_code |-> FALSE]

\* An f32 axis value, kept as the exact fraction num / den (den > 0)
Frac(num, den) == [num |-> num, den |-> den]

\* JoystickState::default(): 6 axes at 0.0, 16 buttons released, one POV at -1
JoystickStateDefault ==
    [axes |-> [i \in 1..6 |-> Frac(0, 1)],
     buttons |-> [i \in 1..16 |-> FALSE],
     povs |-> <<-1>>]

\* The fields of DiagnosticData that parse_inbound_packet writes.  A float
\* read with f32::from_bits is kept as its 32-bit pattern; cpu_usage is kept
\* as the sequence of the per-core patterns whose mean it is (<<>> for 0.0).
DiagnosticDataDefault ==
    [disk_usage |-> 0, cpu_usage |-> <<>>, ram_usage |-> 0,
     can_utilization |-> 0, can_bus_off |-> 0, can_tx_full |-> 0]

----------------------------------------------------------------------------
(* Inputs *)

ModeInputs == Mode
AllianceInputs == {"Red1", "Blue2"}
TeamInputs == {0, 254}
IpInputs == {<<10, 0, 0, 5>>}

\* Team numbers up to 2^31 - 1 (the largest integer the checker handles), and
\* SetTargetIp strings: two IPv4 literals, a dotted string with an octet
\* above 255, and a host name
TargetTeams == {0, 1, 254, 9999, 25599, 25600, 2147483647}
TargetIps == {<<10, 0, 0, 5>>, <<192, 168, 1, 20>>, <<10, 0, 0, 256>>,
              <<"roborio-254-frc.local">>}

\* Datagrams delivered by recv_from: a short one, and two full status frames
ShortFrame == <<0, 1, 1>>
FrameEnabled == <<0, 1, 1, 4, 32, 12, 128>>
FrameEstopped == <<0, 2, 1, 146, 0, 11, 0>>
InboundFrames == {ShortFrame, FrameEnabled, FrameEstopped}

NoPkt == [bytes |-> <<>>, dest |-> <<>>, port |-> 0, ok |-> FALSE]

\* Status frames: header bytes 0..6, then byte 7, then tag records
FrameHeader == <<0, 7, 1, 4, 32, 12, 128>>
TagDisk42 == <<5, 4, 0, 0, 0, 42>>
TagDisk7 == <<5, 4, 0, 0, 0, 7>>
TagRam == <<5, 6, 63, 128, 0, 0>>
TagCpu2 == <<14, 5, 2, 63, 128, 0, 0, 64, 0, 0, 0, 0, 0, 0, 0>>
TagCan == <<15, 14, 63, 0, 0, 0, 0, 0, 0, 3, 0, 0, 0, 9, 1, 2>>

\* Headers with the other status, trace and battery bytes
HeaderFrames ==
    {FrameEnabled, FrameEstopped,
     <<0, 3, 1, 1, 0, 0, 0>>,
     <<0, 4, 1, 3, 223, 7, 255>>,
     <<0, 5, 1, 22, 32, 13, 1>>,
     <<255, 255, 1, 255, 255, 255, 255>>}

\* Frames with tag records: well-formed records of each kind from byte 8, a
\* record placed at byte 7, records too short for their kind, a zero size
\* byte, a size byte that runs past the end, and a frame of 1024 bytes
TagFrames ==
    {FrameHeader \o <<0>>,
     FrameHeader \o <<0>> \o TagDisk42,
     FrameHeader \o TagDisk42,
     FrameHeader \o <<0>> \o TagRam,
     FrameHeader \o <<0>> \o TagCpu2,
     FrameHeader \o <<0>> \o TagCan,
     FrameHeader \o <<0>> \o TagDisk7 \o TagRam \o <<0>> \o TagCan,
     FrameHeader \o <<0>> \o TagDisk7 \o <<9, 6, 1, 2>>,
     FrameHeader \o <<0>> \o <<2, 99, 1>> \o <<1, 4>> \o TagDisk42,
     FrameHeader \o <<0>> \o <<14, 5, 4, 63, 128, 0, 0, 64, 0, 0, 0, 0, 0, 0, 0>>,
     FrameHeader \o <<0>> \o <<10, 5, 2, 63, 128, 0, 0, 64, 0, 0, 0>>,
     FrameHeader \o <<0>> \o <<4, 4, 0, 0, 42>>,
     FrameHeader \o <<0>> \o <<14, 14, 63, 0, 0, 0, 0, 0, 0, 3, 0, 0, 0, 9, 1>>,
     FrameHeader \o <<0>> \o <<200>>,
     FrameHeader \o <<0>> \o <<1>>,
     FrameHeader \o <<0>> \o [i \in 1..1016 |-> 126]}

\* Datagrams shorter than a header
ShortFrames == {<<>>, ShortFrame, <<0, 1, 1, 4, 32, 12>>}

CodecFrames == HeaderFrames \cup TagFrames \cup ShortFrames

\* Joysticks as the gamepad manager keeps them (6 axes, 16 buttons, one POV):
\* sticks at the stops with buttons 0 and 7 pressed and the POV at 180, and
\* sticks at fractional positions with buttons 8 and 15 pressed
JoystickStops ==
    [axes |-> <<Frac(1, 1), Frac(-1, 1), Frac(0, 1), Frac(0, 1), Frac(0, 1),
                Frac(0, 1)>>,
     buttons |-> [i \in 1..16 |-> i \in {1, 8}],
     povs |-> <<180>>]
JoystickFractions ==
    [axes |-> <<Frac(1, 2), Frac(-1, 2), Frac(3, 4), Frac(255, 256),
                Frac(-255, 256), Frac(1, 128)>>,
     buttons |-> [i \in 1..16 |-> i \in {9, 16}],
     povs |-> <<270>>]

\* Joysticks of other shapes: nothing at all; 3 axes beyond [-1, 1], 10
\* buttons and 2 POVs; 252 axes (a record payload of 255 bytes)
JoystickEmpty == [axes |-> <<>>, buttons |-> <<>>, povs |-> <<>>]
JoystickOdd ==
    [axes |-> <<Frac(3, 2), Frac(-3, 2), Frac(-129, 128)>>,
     buttons |-> [i \in 1..10 |-> i \in {1, 2, 10}],
     povs |-> <<-1, 45>>]
JoystickWide ==
    [axes |-> [i \in 1..252 |-> Frac(0, 1)], buttons |-> <<>>, povs |-> <<>>]

\* Snapshots of the shared joystick vector: those sync_joystick_state writes
\* (slots 0..max_slot, default where no gamepad sits), and vectors of the
\* other shapes
JoystickSnapshots ==
    {<<JoystickStateDefault>>,
     <<JoystickStops>>,
     <<JoystickStateDefault, JoystickFractions>>,
     <<JoystickStops, JoystickStateDefault, JoystickStateDefault,
       JoystickStateDefault, JoystickStateDefault, JoystickStateDefault,
       JoystickFractions>>,
     <<>>,
     <<JoystickEmpty, JoystickOdd>>,
     <<JoystickOdd, JoystickWide, JoystickStops>>}

\* Wall-clock readings: 2000-02-29 12:34:56.999999 and 2026-12-31 23:59:59 UTC
ClockInputs == {[ok |-> TRUE, secs |-> 951827696, micros |-> 999999],
                [ok |-> TRUE, secs |-> 1798761599, micros |-> 0]}

----------------------------------------------------------------------------
(* Wire codec (protocol/connection.rs) *)

\* team_to_ip
team_to_ip(team) ==
    IF team = 0 THEN <<127, 0, 0, 1>>
    ELSE <<10, team \div 100, team % 100, 2>>

\* Mutant: an address that does not parse is used as it is
Dest_Unparsed(ip) == ip

\* format!("{target_ip}:1110").parse().unwrap_or_else(127.0.0.1:1110)
Dest(ip) ==
    IF /\ Len(ip) = 4
       /\ \A i \in 1..4 : ip[i] \in 0..255
    THEN ip
    ELSE <<127, 0, 0, 1>>

\* build_outbound_packet, bytes 0..5 (header)
ControlByte(state) ==
    (IF state.estop THEN 128 ELSE 0)
    + (IF state.enabled THEN 4 ELSE 0)
    + to_bits(state.mode)

RequestByte(state) ==
    (IF state.request_reboot THEN 8 ELSE 0)
    + (IF state.request_restart_code THEN 4 ELSE 0)

OutboundHeader(seq, state) ==
    <<seq \div 256, seq % 256, 1, ControlByte(state), RequestByte(state),
      to_byte(state.alliance)>>

\* x as u8 for a length x; v as u8 for an i8 v; v as big-endian i16
AsU8(x) == x % 256
I8AsU8(v) == (v + 256) % 256
I16Bytes(v) == <<((v + U16) % U16) \div 256, ((v + U16) % U16) % 256>>

\* The concatenation of a sequence of byte sequences
RECURSIVE Flatten(_)
Flatten(ss) == IF ss = <<>> THEN <<>> ELSE Head(ss) \o Flatten(Tail(ss))

\* (axis * 127.0).clamp(-128.0, 127.0) as i8: the cast truncates toward zero
AxisByte(x) ==
    LET p == x.num * 127
    IN  IF p < (-128) * x.den THEN -128
        ELSE IF p > 127 * x.den THEN 127
        ELSE IF p >= 0 THEN p \div x.den ELSE -((-p) \div x.den)

\* Mutant: buttons are packed least-significant bit first
ButtonBit_LsbFirst(bit) == 2 ^ bit

\* byte |= 1 << (7 - bit)
ButtonBit(bit) == 2 ^ (7 - bit)

\* The contribution of one bit of a packed button byte:
\* if btn_idx < num_buttons && js.buttons[btn_idx] { byte |= 1 << (7 - bit) }
ButtonMask(buttons, btn_idx, bit) ==
    IF btn_idx < Len(buttons) /\ buttons[btn_idx + 1] THEN ButtonBit(bit) ELSE 0

\* One packed button byte: for bit in 0..8
ButtonByte(buttons, byte_idx) ==
    ButtonMask(buttons, byte_idx * 8, 0) + ButtonMask(buttons, byte_idx * 8 + 1, 1)
    + ButtonMask(buttons, byte_idx * 8 + 2, 2) + ButtonMask(buttons, byte_idx * 8 + 3, 3)
    + ButtonMask(buttons, byte_idx * 8 + 4, 4) + ButtonMask(buttons, byte_idx * 8 + 5, 5)
    + ButtonMask(buttons, byte_idx * 8 + 6, 6) + ButtonMask(buttons, byte_idx * 8 + 7, 7)

\* (num_buttons + 7) / 8
ButtonBytes(num_buttons) == (num_buttons + 7) \div 8

\* Mutant: the size byte counts the data only, not the tag id
TagSize_DataOnly(data_size) == AsU8(data_size)

\* let tag_size: u8 = (1 + data_size) as u8
TagSize(data_size) == AsU8(1 + data_size)

\* data = axes_count(1) + axes + button_count(1) + button_bytes + pov_count(1)
\*        + povs * 2
JoystickData(js) ==
    <<AsU8(Len(js.axes))>>
    \o [i \in 1..Len(js.axes) |-> I8AsU8(AxisByte(js.axes[i]))]
    \o <<AsU8(Len(js.buttons))>>
    \o [b \in 1..ButtonBytes(Len(js.buttons)) |-> ButtonByte(js.buttons, b - 1)]
    \o <<AsU8(Len(js.povs))>>
    \o Flatten([i \in 1..Len(js.povs) |-> I16Bytes(js.povs[i])])

\* One joystick tag record: size, 0x0C, data
JoystickTag(js) ==
    <<TagSize(1 + Len(js.axes) + 1 + ButtonBytes(Len(js.buttons)) + 1
              + Len(js.povs) * 2), 12>>
    \o JoystickData(js)

\* for js in joysticks.iter().take(6)
JoystickTags(joysticks) ==
    Flatten([i \in 1..(IF Len(joysticks) < 6 THEN Len(joysticks) ELSE 6)
                |-> JoystickTag(joysticks[i])])

\* days_to_date (Hinnant's civil calendar): <<year, month, day>>
days_to_date(days) ==
    LET z == days + 719468
        era == z \div 146097
        doe == z % 146097
        yoe == (doe - doe \div 1460 + doe \div 36524 - doe \div 146096) \div 365
        y == (yoe + era * 400) % U16
        doy == doe - (365 * yoe + yoe \div 4 - yoe \div 100)
        mp == (5 * doy + 2) \div 153
        d == AsU8(doy - (153 * mp + 2) \div 5 + 1)
        m == AsU8(IF mp < 10 THEN mp + 3 ELSE mp - 9)
    IN  <<IF m <= 2 THEN y + 1 ELSE y, m, d>>

\* seq % 50 == 0
DateTimeDue(seq) == seq % 50 = 0

\* The DateTime tag record: 11, 0x0F, micros (u32 big-endian), sec, min, hour,
\* day, month - 1, year - 1900
DateTimeTag(clock) ==
    IF ~clock.ok THEN <<>>
    ELSE LET date == days_to_date(clock.secs \div 86400)
         IN  <<11, 15,
               (clock.micros \div 16777216) % 256, (clock.micros \div 65536) % 256,
               (clock.micros \div 256) % 256, clock.micros % 256,
               clock.secs % 60, (clock.secs \div 60) % 60,
               (clock.secs \div 3600) % 24,
               date[3], AsU8(date[2] + 255), AsU8(date[1] + U16 - 1900)>>

\* The clock readings a frame can take: the clock is read only when the
\* DateTime tag is due
ClockReads(seq) ==
    IF DateTimeDue(seq) THEN ClockInputs
    ELSE {[ok |-> FALSE, secs |-> 0, micros |-> 0]}

\* build_outbound_packet; clock is SystemTime::now().duration_since(UNIX_EPOCH)
build_outbound_packet(seq, state, joysticks, clock) ==
    OutboundHeader(seq, state)
    \o JoystickTags(joysticks)
    \o (IF DateTimeDue(seq) THEN DateTimeTag(clock) ELSE <<>>)

\* Mutant: enabled is read with the mask 0x08
parse_inbound_packet_EnabledMask8(data, rs) ==
    IF Len(data) < MinFrameLen THEN rs
    ELSE [rs EXCEPT
            !.sequence_number = data[1] * 256 + data[2],
            !.estopped = BitSet(data[4], 7),
            !.brownout = BitSet(data[4], 4),
            !.enabled = BitSet(data[4], 3),
            !.mode = from_bits(data[4]),
            !.code_running = BitSet(data[5], 5),
            !.battery_voltage = data[6] * 256 + data[7],
            !.connected = TRUE]

\* parse_inbound_packet, header part: data is a sequence of bytes (1-based)
parse_inbound_packet(data, rs) ==
    IF Len(data) < MinFrameLen THEN rs
    ELSE [rs EXCEPT
            !.sequence_number = data[1] * 256 + data[2],
            !.estopped = BitSet(data[4], 7),
            !.brownout = BitSet(data[4], 4),
            !.enabled = BitSet(data[4], 2),
            !.mode = from_bits(data[4]),
            !.code_running = BitSet(data[5], 5),
            !.battery_voltage = data[6] * 256 + data[7],
            !.connected = TRUE]

\* u32::from_be_bytes of the four bytes of b from 0-based offset k
U32Be(b, k) ==
    b[k + 1] * 16777216 + b[k + 2] * 65536 + b[k + 3] * 256 + b[k + 4]

\* The match on the tag id: the record is applied if its data is long enough
ApplyTag(tag, tag_data, d) ==
    CASE tag = 4 ->
           IF Len(tag_data) >= 4
           THEN [d EXCEPT !.disk_usage = U32Be(tag_data, 0)]
           ELSE d
      [] tag = 5 ->
           IF /\ Len(tag_data) >= 12
              /\ tag_data[1] > 0
              /\ Len(tag_data) >= 1 + tag_data[1] * 4
           THEN [d EXCEPT !.cpu_usage =
                    [c \in 1..tag_data[1] |-> U32Be(tag_data, 1 + (c - 1) * 4)]]
           ELSE d
      [] tag = 6 ->
           IF Len(tag_data) >= 4
           THEN [d EXCEPT !.ram_usage = U32Be(tag_data, 0)]
           ELSE d
      [] tag = 14 ->
           IF Len(tag_data) >= 14
           THEN [d EXCEPT !.can_utilization = U32Be(tag_data, 0),
                          !.can_bus_off = U32Be(tag_data, 4),
                          !.can_tx_full = U32Be(tag_data, 8)]
           ELSE d
      [] OTHER -> d

\* Mutant: the tag loop starts right after the 7 header bytes
TagStart_Byte7 == MinFrameLen

\* let mut i = 8
TagStart == 8

\* Mutant: only a zero size byte stops the tag loop
TagStops_ZeroOnly(data, i) == data[i + 1] = 0

\* size == 0 || i + 1 + size > data.len()
TagStops(data, i) ==
    \/ data[i + 1] = 0
    \/ i + 1 + data[i + 1] > Len(data)

\* The tag loop from 0-based offset i.  reads is the largest 0-based index
\* indexed so far (the size byte, the tag id, the end of the tag_data slice);
\* an index >= data.len() is a panic in Rust, and the loop ends there.
RECURSIVE TagLoop(_, _, _, _)
TagLoop(data, i, d, reads) ==
    IF i >= Len(data) THEN [diag |-> d, reads |-> reads]
    ELSE IF TagStops(data, i) THEN [diag |-> d, reads |-> i]
    ELSE IF i + 1 + data[i + 1] > Len(data)
         THEN [diag |-> d, reads |-> i + data[i + 1]]
    ELSE TagLoop(data, i + 1 + data[i + 1],
                 ApplyTag(data[i + 2],
                          SubSeq(data, i + 3, i + 1 + data[i + 1]), d),
                 i + data[i + 1])

\* parse_inbound_packet, tag part: the DiagnosticData after the frame
ParseTags(data, d) ==
    IF Len(data) < MinFrameLen THEN d
    ELSE TagLoop(data, TagStart, d, 6).diag

\* The largest index of data that parse_inbound_packet indexes (-1 if none)
ParseReads(data) ==
    IF Len(data) < MinFrameLen THEN -1
    ELSE TagLoop(data, TagStart, DiagnosticDataDefault, 6).reads

----------------------------------------------------------------------------
(* Fields of the frame built by the latest send tick *)

Sent == pkt # NoPkt
PktSeq == pkt.bytes[1] * 256 + pkt.bytes[2]
PktControl == pkt.bytes[4]
PktRequest == pkt.bytes[5]
PktEstop == BitSet(PktControl, 7)
PktEnabled == BitSet(PktControl, 2)
PktReboot == BitSet(PktRequest, 3)
PktRestart == BitSet(PktRequest, 2)

----------------------------------------------------------------------------
(* logging.rs: records of the TCP telemetry stream *)

MaxRecordSize == 32768
ErrorHeaderLen == 13
StdoutHeaderLen == 6

PowerDataDefault ==
    [disable_count_comms |-> 0, disable_count_12v |-> 0, rail_faults_6v |-> 0,
     rail_faults_5v |-> 0, rail_faults_3v3 |-> 0]

\* No message: nothing is being sent, nothing was delivered
NoMessage == [kind |-> "none"]

\* Strings are sequences of ASCII codes.  char::is_whitespace over ASCII
Whitespace == {9, 10, 11, 12, 13, 32}

\* str::trim_end
RECURSIVE trim_end(_)
trim_end(s) ==
    IF s = <<>> THEN s
    ELSE IF s[Len(s)] \in Whitespace THEN trim_end(SubSeq(s, 1, Len(s) - 1))
    ELSE s

\* u16::from_be_bytes([data[k], data[k + 1]]), k counted from 0
U16Be(data, k) == data[k + 1] * 256 + data[k + 2]

\* data[k..], k counted from 0
From(data, k) == SubSeq(data, k + 1, Len(data))

\* Mutant: the string is returned as received
read_prefixed_string_Untrimmed(data, offset) ==
    IF offset + 2 > Len(data) THEN [some |-> FALSE, s |-> <<>>, next |-> offset]
    ELSE LET len == U16Be(data, offset)
             start == offset + 2
         IN  IF start + len > Len(data)
             THEN [some |-> FALSE, s |-> <<>>, next |-> offset]
             ELSE [some |-> TRUE,
                   s |-> SubSeq(data, start + 1, start + len),
                   next |-> start + len]

\* Option<(String, usize)>: some is FALSE for None.  next is the offset the
\* caller continues from: it moves only on Some
read_prefixed_string(data, offset) ==
    IF offset + 2 > Len(data) THEN [some |-> FALSE, s |-> <<>>, next |-> offset]
    ELSE LET len == U16Be(data, offset)
             start == offset + 2
         IN  IF start + len > Len(data)
             THEN [some |-> FALSE, s |-> <<>>, next |-> offset]
             ELSE [some |-> TRUE,
                   s |-> trim_end(SubSeq(data, start + 1, start + len)),
                   next |-> start + len]

\* format!("{message} @ {location_str}"), format!("{message}\n{callstack_str}")
ErrorText(details, location, callstack) ==
    LET with_location == IF location # <<>>
                         THEN details \o <<32, 64, 32>> \o location
                         ELSE details
    IN  IF callstack # <<>> THEN with_location \o <<10>> \o callstack
        ELSE with_location

ConsoleMessage(timestamp, message, is_error, seq) ==
    [kind |-> "console", timestamp |-> timestamp, message |-> message,
     is_error |-> is_error, sequence |-> seq]

\* Tag 0x0C, and the fallback of tag 0x0B: timestamp, sequence, message
StdoutMessage(data, is_error) ==
    LET message == trim_end(From(data, StdoutHeaderLen))
    IN  IF message # <<>>
        THEN ConsoleMessage(U32Be(data, 0), message, is_error, U16Be(data, 4))
        ELSE NoMessage

\* Tag 0x0B with the full header
ErrorMessage(data) ==
    LET details == read_prefixed_string(data, ErrorHeaderLen)
        location == read_prefixed_string(data, details.next)
        callstack == read_prefixed_string(data, location.next)
        message == ErrorText(details.s, location.s, callstack.s)
    IN  IF message # <<>>
        THEN ConsoleMessage(U32Be(data, 0), message, data[13] % 2 = 1,
                            U16Be(data, 4))
        ELSE NoMessage

\* Tag 0x0A
VersionInfo(data) ==
    LET image == read_prefixed_string(data, 0)
        wpilib == read_prefixed_string(data, image.next)
        rio == read_prefixed_string(data, wpilib.next)
    IN  [kind |-> "version", image_version |-> image.s,
         wpilib_version |-> wpilib.s, rio_version |-> rio.s]

\* Tags 0x04 and 0x05 assign their fields of power
ApplyPower(tag, data, p) ==
    IF tag = 4 /\ Len(data) >= 4
    THEN [p EXCEPT !.disable_count_comms = U16Be(data, 0),
                   !.disable_count_12v = U16Be(data, 2)]
    ELSE IF tag = 5 /\ Len(data) >= 6
    THEN [p EXCEPT !.rail_faults_6v = U16Be(data, 0),
                   !.rail_faults_5v = U16Be(data, 2),
                   !.rail_faults_3v3 = U16Be(data, 4)]
    ELSE p

\* The match on the tag of a non-empty payload: the message handed to a
\* channel (NoMessage if the record sends none); p is power after the record
Dispatch(payload, p) ==
    LET tag == payload[1]
        data == From(payload, 1)
    IN  CASE tag = 12 /\ Len(data) >= StdoutHeaderLen -> StdoutMessage(data, FALSE)
          [] tag = 11 /\ Len(data) >= ErrorHeaderLen -> ErrorMessage(data)
          [] tag = 11 /\ Len(data) >= StdoutHeaderLen -> StdoutMessage(data, TRUE)
          [] tag = 4 /\ Len(data) >= 4 -> [kind |-> "power", data |-> p]
          [] tag = 5 /\ Len(data) >= 6 -> [kind |-> "power", data |-> p]
          [] tag = 10 -> VersionInfo(data)
          [] OTHER -> NoMessage

\* Inputs: records as the robot frames them, size(u16) tag(u8) data
Record(tag, data) ==
    <<(Len(data) + 1) \div 256, (Len(data) + 1) % 256, tag>> \o data

Str(s) == <<Len(s) \div 256, Len(s) % 256>> \o s

\* What the robot sends on one connection.  Stamp is timestamp 1.0 and
\* sequence 7; RecLargest has the largest accepted size, 32768, and an unused
\* tag; RecOversize is the start of a record of size 32769
Streams ==
    LET Stamp == <<63, 128, 0, 0, 0, 7>>
        ErrHead(flags) == Stamp \o <<0, 0, 0, 0, 0, 44, flags>>
        RecStdout == Record(12, Stamp \o <<104, 105, 10>>)
        RecStdoutBlank == Record(12, Stamp \o <<32, 10>>)
        RecError == Record(11, ErrHead(1) \o Str(<<69, 32>>) \o Str(<<76>>)
                                   \o Str(<<67, 10>>))
        RecWarning == Record(11, ErrHead(2) \o Str(<<87>>) \o Str(<<>>)
                                     \o Str(<<>>))
        RecErrorNoLoc == Record(11, ErrHead(3) \o Str(<<69>>) \o Str(<<>>)
                                        \o Str(<<67>>))
        RecErrorCut == Record(11, ErrHead(1) \o <<0, 9, 69>>)
        RecErrorBare == Record(11, ErrHead(1))
        RecErrorEmpty == Record(11, ErrHead(1) \o Str(<<>>) \o Str(<<32>>)
                                        \o Str(<<>>))
        RecShort5 == Record(11, <<63, 128, 0, 0, 0>>)
        RecShort6 == Record(11, Stamp)
        RecShort8 == Record(11, Stamp \o <<111, 107>>)
        RecShort12 == Record(11, Stamp \o <<112, 97, 110, 105, 99, 33>>)
        RecDisable(comms, v12) == Record(4, <<0, comms, 0, v12>>)
        RecRail(v6, v5, v3) == Record(5, <<0, v6, 0, v5, 0, v3>>)
        RecVersion == Record(10, Str(<<73>>) \o Str(<<87, 32>>) \o Str(<<82>>))
        RecZero == <<0, 0>>
        RecLargest == <<128, 0>> \o [i \in 1..MaxRecordSize |-> 13]
        RecOversize == <<128, 1>> \o Record(12, Stamp \o <<111, 111, 112>>)
    IN  { RecStdout \o RecZero \o RecError,
          RecDisable(1, 2) \o RecRail(3, 4, 5) \o RecDisable(0, 2),
          RecDisable(6, 7),
          RecOversize,
          RecLargest \o RecStdout,
          RecShort5 \o RecShort6 \o RecShort8 \o RecShort12,
          RecErrorCut \o RecErrorBare \o RecWarning \o RecErrorNoLoc,
          RecErrorEmpty \o RecError,
          RecVersion \o RecStdoutBlank \o RecStdout }

ConsolePort == 1740
ConsoleIps == {<<127, 0, 0, 1>>, <<10, 2, 54, 2>>}

NoStream == [bytes |-> <<>>, pos |-> 0]

\* console_log_listener as spawned: about to connect to the first address
InitTelemetry ==
    /\ listener = [pc |-> "connecting", addr |-> <<127, 0, 0, 1>>,
                   port |-> ConsolePort, size |-> 0]
    /\ target_ip_rx = [value |-> <<127, 0, 0, 1>>, changed |-> FALSE]
    /\ shutdown_rx = [value |-> FALSE, changed |-> FALSE]
    /\ stream = NoStream
    /\ power = PowerDataDefault
    /\ timer = FALSE
    /\ sending = NoMessage
    /\ delivered = NoMessage
    /\ published = PowerDataDefault

----------------------------------------------------------------------------
(* protocol_loop *)

Init ==
    /\ ds_state = DsStateDefault
    /\ robot_state = RobotStateDefault
    /\ sequence = 0
    /\ last_recv = 0
    /\ send_socket \in BOOLEAN
    /\ recv_socket \in BOOLEAN
    /\ target_ip = team_to_ip(0)
    /\ pkt = NoPkt
    /\ frames = 0
    /\ last_seq = -1
    /\ oneshot_cmds = {}
    /\ scenario = 0
    /\ last_op = [op |-> "start", arg |-> 0, ds |-> DsStateDefault]
    /\ joystick_state = <<JoystickStateDefault>>
    /\ diag = DiagnosticDataDefault
    /\ InitTelemetry
    /\ event_tx = 0
    /\ loop_pc = "select"
    /\ joystick_lock = "free"
    /\ gamepads = <<>>
    /\ locked_slots = {}
    /\ discovery = [pc |-> "idle", team |-> 0, timeout |-> FALSE,
                    event |-> "none", result_tx |-> <<>>]
    /\ cmd_tx = <<>>
    /\ invocations = {}

\* Bookkeeping of a step that builds no frame
Took(op, arg) ==
    /\ loop_pc = "select"
    /\ UNCHANGED loop_pc
    /\ last_op' = [op |-> op, arg |-> arg, ds |-> ds_state]
    /\ pkt' = NoPkt
    /\ UNCHANGED <<frames, last_seq, joystick_state, other_vars>>

\* Bookkeeping of a command: the one-shot commands since the previous frame,
\* and the position in the sequence EStop, RebootRio
TookCommand(op, arg) ==
    /\ Took(op, arg)
    /\ UNCHANGED diag
    /\ oneshot_cmds' = IF op \in {"RebootRio", "RestartCode"}
                       THEN oneshot_cmds \cup {op}
                       ELSE oneshot_cmds
    /\ scenario' = CASE op = "EStop" -> 1
                     [] op = "RebootRio" /\ scenario = 1 -> 2
                     [] OTHER -> 0

TookOther(op, arg) ==
    /\ Took(op, arg)
    /\ UNCHANGED <<oneshot_cmds, scenario>>

\* Mutant: the mode is switched without disabling
SetMode_KeepEnabled(mode) ==
    /\ ds_state' = [ds_state EXCEPT !.mode = mode]
    /\ TookCommand("SetMode", mode)
    /\ UNCHANGED <<robot_state, sequence, last_recv, send_socket, recv_socket,
                   target_ip>>

SetTeamNumber(team) ==
    /\ target_ip' = team_to_ip(team)
    /\ robot_state' = RobotStateDefault
    /\ ds_state' = [ds_state EXCEPT !.enabled = FALSE]
    /\ TookCommand("SetTeamNumber", team)
    /\ UNCHANGED <<sequence, last_recv, send_socket, recv_socket>>

\* Mutant: Enable is accepted while E-Stopped
Enable_NoEstopCheck ==
    /\ ds_state' = [ds_state EXCEPT !.enabled = TRUE]
    /\ TookCommand("Enable", 0)
    /\ UNCHANGED <<robot_state, sequence, last_recv, send_socket, recv_socket,
                   target_ip>>

SetMode(mode) ==
    /\ ds_state' = [ds_state EXCEPT !.mode = mode, !.enabled = FALSE]
    /\ TookCommand("SetMode", mode)
    /\ UNCHANGED <<robot_state, sequence, last_recv, send_socket, recv_socket,
                   target_ip>>

Enable ==
    /\ ds_state' = IF ~ds_state.estop
                   THEN [ds_state EXCEPT !.enabled = TRUE]
                   ELSE ds_state
    /\ TookCommand("Enable", 0)
    /\ UNCHANGED <<robot_state, sequence, last_recv, send_socket, recv_socket,
                   target_ip>>

\* Mutant: E-Stop latches without disabling
EStop_KeepEnabled ==
    /\ ds_state' = [ds_state EXCEPT !.estop = TRUE]
    /\ TookCommand("EStop", 0)
    /\ UNCHANGED <<robot_state, sequence, last_recv, send_socket, recv_socket,
                   target_ip>>

Disable ==
    /\ ds_state' = [ds_state EXCEPT !.enabled = FALSE]
    /\ TookCommand("Disable", 0)
    /\ UNCHANGED <<robot_state, sequence, last_recv, send_socket, recv_socket,
                   target_ip>>

EStop ==
    /\ ds_state' = [ds_state EXCEPT !.estop = TRUE, !.enabled = FALSE]
    /\ TookCommand("EStop", 0)
    /\ UNCHANGED <<robot_state, sequence, last_recv, send_socket, recv_socket,
                   target_ip>>

\* Mutant: the reboot request leaves E-Stop latched
RebootRio_KeepEstop ==
    /\ ds_state' = [ds_state EXCEPT !.request_reboot = TRUE, !.enabled = FALSE]
    /\ TookCommand("RebootRio", 0)
    /\ UNCHANGED <<robot_state, sequence, last_recv, send_socket, recv_socket,
                   target_ip>>

SetAlliance(alliance) ==
    /\ ds_state' = [ds_state EXCEPT !.alliance = alliance]
    /\ TookCommand("SetAlliance", alliance)
    /\ UNCHANGED <<robot_state, sequence, last_recv, send_socket, recv_socket,
                   target_ip>>

RebootRio ==
    /\ ds_state' = [ds_state EXCEPT !.request_reboot = TRUE,
                                    !.estop = FALSE, !.enabled = FALSE]
    /\ TookCommand("RebootRio", 0)
    /\ UNCHANGED <<robot_state, sequence, last_recv, send_socket, recv_socket,
                   target_ip>>

RestartCode ==
    /\ ds_state' = [ds_state EXCEPT !.request_restart_code = TRUE]
    /\ TookCommand("RestartCode", 0)
    /\ UNCHANGED <<robot_state, sequence, last_recv, send_socket, recv_socket,
                   target_ip>>

\* Mutant: a retarget disables, as a team change does
SetTargetIp_Disabling(ip) ==
    /\ target_ip' = ip
    /\ ds_state' = [ds_state EXCEPT !.enabled = FALSE]
    /\ TookCommand("SetTargetIp", ip)
    /\ UNCHANGED <<robot_state, sequence, last_recv, send_socket, recv_socket>>

SetTargetIp(ip) ==
    /\ target_ip' = ip
    /\ TookCommand("SetTargetIp", ip)
    /\ UNCHANGED <<ds_state, robot_state, sequence, last_recv, send_socket,
                   recv_socket>>

\* Mutant: the sequence number saturates instead of wrapping
NextSequence_Saturating(seq) == IF seq + 1 < U16 THEN seq + 1 ELSE seq

\* sequence.wrapping_add(1)
NextSequence(seq) == (seq + 1) % U16

\* Mutant: only the restart-code request is cleared
ClearOneShot_KeepReboot(state) ==
    [state EXCEPT !.request_restart_code = FALSE]

\* Clear one-shot requests after sending
ClearOneShot(state) ==
    [state EXCEPT !.request_reboot = FALSE, !.request_restart_code = FALSE]

\* last_recv.elapsed() > Duration::from_secs(1)
WatchdogExpired(elapsed) == elapsed > WatchdogMs

\* Mutant: the watchdog disables but leaves E-Stop latched
WatchdogDs_KeepEstop(state, rs) ==
    IF rs.connected
    THEN [state EXCEPT !.enabled = FALSE]
    ELSE state

\* Watchdog, DsState: E-Stop and enabled are cleared if the robot was connected
WatchdogDs(state, rs) ==
    IF rs.connected
    THEN [state EXCEPT !.estop = FALSE, !.enabled = FALSE]
    ELSE state

\* Mutant: the watchdog marks the robot disconnected but keeps the last voltage
WatchdogRobot_KeepBattery(rs) ==
    [rs EXCEPT !.connected = FALSE, !.code_running = FALSE, !.enabled = FALSE]

\* Watchdog, RobotState
WatchdogRobot(rs) ==
    [rs EXCEPT !.connected = FALSE, !.battery_voltage = 0,
               !.code_running = FALSE, !.enabled = FALSE]

\* Mutant: the one-shot flags are cleared and the watchdog is evaluated
\* whether or not the send socket is bound
SendTickUpTo_WatchdogUnbound(limit) ==
    /\ frames < limit
    /\ loop_pc \in {"select", "read_lock"}
    /\ send_socket => joystick_lock = "free"
    /\ loop_pc' = "select"
    /\ last_op' = [op |-> "SendTick", arg |-> 0, ds |-> ds_state]
    /\ IF send_socket
       THEN /\ \E clock \in ClockReads(sequence) :
                 LET bytes == build_outbound_packet(sequence, ds_state,
                                                    joystick_state, clock)
                 IN  \E ok \in BOOLEAN :
                       pkt' = [bytes |-> bytes, dest |-> Dest(target_ip),
                               port |-> RobotPort, ok |-> ok]
            /\ sequence' = NextSequence(sequence)
            /\ frames' = frames + 1
            /\ last_seq' = sequence
            /\ oneshot_cmds' = {}
            /\ scenario' = IF scenario \in {2, 3} THEN scenario + 1
                           ELSE IF scenario = 1 THEN 1 ELSE 0
       ELSE /\ pkt' = NoPkt
            /\ UNCHANGED <<sequence, frames, last_seq, oneshot_cmds, scenario>>
    /\ IF WatchdogExpired(last_recv)
       THEN /\ ds_state' = WatchdogDs(ClearOneShot(ds_state), robot_state)
            /\ robot_state' = WatchdogRobot(robot_state)
       ELSE /\ ds_state' = ClearOneShot(ds_state)
            /\ robot_state' = robot_state
    /\ UNCHANGED <<last_recv, send_socket, recv_socket, target_ip,
                   joystick_state, diag, other_vars>>

\* 50 Hz send tick; limit bounds the number of frames of a behaviour.
\* The result of send_to (ok) is only logged.  joystick_state.read() returns
\* only while the write lock is free
SendTickUpTo(limit) ==
    /\ frames < limit
    /\ loop_pc \in {"select", "read_lock"}
    /\ send_socket => joystick_lock = "free"
    /\ loop_pc' = "select"
    /\ last_op' = [op |-> "SendTick", arg |-> 0, ds |-> ds_state]
    /\ IF send_socket
       THEN /\ \E clock \in ClockReads(sequence) :
                 LET bytes == build_outbound_packet(sequence, ds_state,
                                                    joystick_state, clock)
                 IN  \E ok \in BOOLEAN :
                       pkt' = [bytes |-> bytes, dest |-> Dest(target_ip),
                               port |-> RobotPort, ok |-> ok]
            /\ sequence' = NextSequence(sequence)
            /\ IF WatchdogExpired(last_recv)
               THEN /\ ds_state' = WatchdogDs(ClearOneShot(ds_state), robot_state)
                    /\ robot_state' = WatchdogRobot(robot_state)
               ELSE /\ ds_state' = ClearOneShot(ds_state)
                    /\ robot_state' = robot_state
            /\ frames' = frames + 1
            /\ last_seq' = sequence
            /\ oneshot_cmds' = {}
            /\ scenario' = IF scenario \in {2, 3} THEN scenario + 1
                           ELSE IF scenario = 1 THEN 1 ELSE 0
       ELSE /\ pkt' = NoPkt
            /\ UNCHANGED <<sequence, ds_state, robot_state, frames, last_seq,
                           oneshot_cmds, scenario>>
    /\ UNCHANGED <<last_recv, send_socket, recv_socket, target_ip,
                   joystick_state, diag, other_vars>>

SendTick == SendTickUpTo(MaxTicks)

\* recv_from returned Ok((len, addr)) with the datagram data
Receive(data) ==
    /\ recv_socket
    /\ robot_state' = parse_inbound_packet(data, robot_state)
    /\ diag' = ParseTags(data, diag)
    /\ last_recv' = 0
    /\ TookOther("Receive", data)
    /\ UNCHANGED <<ds_state, sequence, send_socket, recv_socket, target_ip>>

\* recv_from returned Err: the branch is taken and nothing is updated
ReceiveError ==
    /\ recv_socket
    /\ TookOther("ReceiveError", 0)
    /\ UNCHANGED <<ds_state, robot_state, sequence, last_recv, send_socket,
                   recv_socket, target_ip, diag>>

\* 10 Hz event emission: robot_state and diag are cloned into event_tx.
\* Here event_bridge keeps up: both events are sent and received within the
\* step.  EventTickBegin and EventSend are the same branch send by send
EventTick ==
    /\ TookOther("EventTick", 0)
    /\ UNCHANGED <<ds_state, robot_state, sequence, last_recv, send_socket,
                   recv_socket, target_ip, diag>>

\* The wall clock advances between two steps of the loop
AdvanceTime ==
    /\ last_recv < MaxElapsed
    /\ last_recv' = last_recv + TimeStep
    /\ TookOther("AdvanceTime", 0)
    /\ UNCHANGED <<ds_state, robot_state, sequence, send_socket, recv_socket,
                   target_ip, diag>>

Command ==
    \/ \E team \in TeamInputs : SetTeamNumber(team)
    \/ \E mode \in ModeInputs : SetMode(mode)
    \/ Enable
    \/ Disable
    \/ EStop
    \/ \E alliance \in AllianceInputs : SetAlliance(alliance)
    \/ RebootRio
    \/ RestartCode
    \/ \E ip \in IpInputs : SetTargetIp(ip)

Next ==
    \/ Command
    \/ SendTick
    \/ \E data \in InboundFrames : Receive(data)
    \/ ReceiveError
    \/ EventTick
    \/ AdvanceTime

Spec == Init /\ [][Next]_vars

\* The loop run long enough for the u16 sequence number to wrap: send ticks
\* interleaved with an inbound frame
SendTickWrap == SendTickUpTo(WrapTicks)

NextWrap ==
    \/ SendTickWrap
    \/ \E data \in {FrameEnabled} : Receive(data)

SpecWrap == Init /\ [][NextWrap]_vars

\* The gamepad thread replaces the shared joystick vector: the write lock
\* is taken, the vector rewritten and the lock released
sync_joystick_state(snapshot) ==
    /\ joystick_lock = "free"
    /\ UNCHANGED loop_pc
    /\ joystick_state' = snapshot
    /\ last_op' = [op |-> "sync_joystick_state", arg |-> 0, ds |-> ds_state]
    /\ pkt' = NoPkt
    /\ UNCHANGED <<ds_state, robot_state, sequence, last_recv, send_socket,
                   recv_socket, target_ip, frames, last_seq, oneshot_cmds,
                   scenario, diag, other_vars>>

\* The outbound codec: joystick snapshots interleaved with send ticks and
\* the commands that change the header
NextEncode ==
    \/ \E snapshot \in JoystickSnapshots : sync_joystick_state(snapshot)
    \/ SendTick
    \/ Enable
    \/ \E mode \in {"Test"} : SetMode(mode)

SpecEncode == Init /\ [][NextEncode]_vars

\* The inbound codec: datagrams of every shape, interleaved with the commands
\* of the enable handshake
NextDecode ==
    \/ \E data \in CodecFrames : Receive(data)
    \/ \E team \in {0} : SetTeamNumber(team)
    \/ \E mode \in {"Teleoperated"} : SetMode(mode)
    \/ Enable

SpecDecode == Init /\ [][NextDecode]_vars

\* The target address: SetTeamNumber and SetTargetIp over the wider inputs,
\* interleaved with send ticks and an inbound frame
NextTarget ==
    \/ \E team \in TargetTeams : SetTeamNumber(team)
    \/ \E ip \in TargetIps : SetTargetIp(ip)
    \/ SendTick
    \/ \E data \in {FrameEnabled} : Receive(data)

SpecTarget == Init /\ [][NextTarget]_vars

\* Capacity of the event channel
EventCapacity == 256

\* The 10 Hz branch of the select! is taken: the loop is at its first send
EventTickBegin ==
    /\ loop_pc = "select"
    /\ loop_pc' = "send_robot_state"
    /\ last_op' = [op |-> "EventTick", arg |-> 0, ds |-> ds_state]
    /\ pkt' = NoPkt
    /\ UNCHANGED <<ds_state, robot_state, sequence, last_recv, send_socket,
                   recv_socket, target_ip, frames, last_seq, oneshot_cmds,
                   scenario, joystick_state, diag, other_vars>>

\* event_tx.send(..).await completes once the channel has room
EventSend ==
    /\ loop_pc \in {"send_robot_state", "send_diagnostics"}
    /\ event_tx < EventCapacity
    /\ event_tx' = event_tx + 1
    /\ loop_pc' = IF loop_pc = "send_robot_state" THEN "send_diagnostics"
                  ELSE "select"
    /\ UNCHANGED <<control_vars, telemetry_vars, joystick_lock, gamepad_vars, host_vars>>

\* event_bridge receives one event and emits it to the front end
BridgeRecv ==
    /\ event_tx > 0
    /\ event_tx' = event_tx - 1
    /\ UNCHANGED <<control_vars, telemetry_vars, loop_pc, joystick_lock,
                   gamepad_vars, host_vars>>

\* The 50 Hz branch is taken while the write lock is held: the tick waits
\* in joystick_state.read()
SendTickWaits ==
    /\ loop_pc = "select"
    /\ send_socket
    /\ joystick_lock = "write"
    /\ frames < MaxTicks
    /\ loop_pc' = "read_lock"
    /\ UNCHANGED <<control_vars, telemetry_vars, event_tx, joystick_lock,
                   gamepad_vars, host_vars>>

\* sync_joystick_state takes the write lock
SyncLock ==
    /\ joystick_lock = "free"
    /\ joystick_lock' = "write"
    /\ UNCHANGED <<control_vars, telemetry_vars, event_tx, loop_pc,
                   gamepad_vars, host_vars>>

\* sync_joystick_state has rewritten the vector and releases the write lock
SyncUnlock(snapshot) ==
    /\ joystick_lock = "write"
    /\ joystick_lock' = "free"
    /\ joystick_state' = snapshot
    /\ last_op' = [op |-> "sync_joystick_state", arg |-> 0, ds |-> ds_state]
    /\ pkt' = NoPkt
    /\ UNCHANGED <<ds_state, robot_state, sequence, last_recv, send_socket,
                   recv_socket, target_ip, frames, last_seq, oneshot_cmds,
                   scenario, diag, telemetry_vars, event_tx, loop_pc,
                   gamepad_vars, host_vars>>

\* protocol_loop with the things it can wait for: the event channel, filled
\* by the 10 Hz branch and drained by event_bridge, and the joystick lock
NextLoop ==
    \/ EventTickBegin
    \/ EventSend
    \/ BridgeRecv
    \/ SendTick
    \/ SendTickWaits
    \/ SyncLock
    \/ \E snapshot \in {<<JoystickStateDefault>>, <<JoystickStops>>} : SyncUnlock(snapshot)
    \/ Disable

SpecLoop == Init /\ [][NextLoop]_vars

----------------------------------------------------------------------------
(* gamepad/manager.rs: slots and locks *)

MaxDevices == 7
SlotCount == 6

\* The devices gilrs reports, by GamepadId, and their names: devices 1 and 2
\* are two controllers of the same model
Devices == 1..MaxDevices
DeviceName(id) == IF id \in {1, 2} THEN "xbox" ELSE "pad"

\* axis_index and button_index: the index of a gilrs axis or button, -1 for
\* None
AxisOrder ==
    <<"LeftStickX", "LeftStickY", "LeftZ", "RightStickX", "RightStickY",
      "RightZ">>
ButtonOrder ==
    <<"South", "East", "West", "North", "LeftTrigger", "RightTrigger",
      "Select", "Start", "LeftThumb", "RightThumb", "LeftTrigger2",
      "RightTrigger2", "C", "Z", "Mode", "Unknown">>
IndexIn(order, x) ==
    IF \E i \in DOMAIN order : order[i] = x
    THEN (CHOOSE i \in DOMAIN order : order[i] = x) - 1
    ELSE -1
axis_index(axis) == IndexIn(AxisOrder, axis)
button_index(button) == IndexIn(ButtonOrder, button)

\* dpad_to_pov, with the wrap-around diagonal left+up taken for straight up
dpad_to_pov_NoWrap(up, right, down, left) ==
    CASE <<up, right, down, left>> = <<TRUE, FALSE, FALSE, FALSE>> -> 0
      [] <<up, right, down, left>> = <<TRUE, TRUE, FALSE, FALSE>> -> 45
      [] <<up, right, down, left>> = <<FALSE, TRUE, FALSE, FALSE>> -> 90
      [] <<up, right, down, left>> = <<FALSE, TRUE, TRUE, FALSE>> -> 135
      [] <<up, right, down, left>> = <<FALSE, FALSE, TRUE, FALSE>> -> 180
      [] <<up, right, down, left>> = <<FALSE, FALSE, TRUE, TRUE>> -> 225
      [] <<up, right, down, left>> = <<FALSE, FALSE, FALSE, TRUE>> -> 270
      [] <<up, right, down, left>> = <<TRUE, FALSE, FALSE, TRUE>> -> 0
      [] OTHER -> -1

dpad_to_pov(up, right, down, left) ==
    CASE <<up, right, down, left>> = <<TRUE, FALSE, FALSE, FALSE>> -> 0
      [] <<up, right, down, left>> = <<TRUE, TRUE, FALSE, FALSE>> -> 45
      [] <<up, right, down, left>> = <<FALSE, TRUE, FALSE, FALSE>> -> 90
      [] <<up, right, down, left>> = <<FALSE, TRUE, TRUE, FALSE>> -> 135
      [] <<up, right, down, left>> = <<FALSE, FALSE, TRUE, FALSE>> -> 180
      [] <<up, right, down, left>> = <<FALSE, FALSE, TRUE, TRUE>> -> 225
      [] <<up, right, down, left>> = <<FALSE, FALSE, FALSE, TRUE>> -> 270
      [] <<up, right, down, left>> = <<TRUE, FALSE, FALSE, TRUE>> -> 315
      [] OTHER -> -1

\* The TrackedGamepad pushed on Connected
TrackedGamepad(id, slot) ==
    [gilrs_id |-> id, name |-> DeviceName(id), slot |-> slot,
     state |-> JoystickStateDefault, dpad_up |-> FALSE, dpad_right |-> FALSE,
     dpad_down |-> FALSE, dpad_left |-> FALSE]

Slots(gs) == {gs[i].slot : i \in DOMAIN gs}
LockedKeys == {l[1] : l \in locked_slots}

Min(S) == CHOOSE x \in S : \A y \in S : x <= y
Max(S) == CHOOSE x \in S : \A y \in S : y <= x

\* (0..6).find(unused and unlocked).unwrap_or(self.gamepads.len())
first_available_slot ==
    LET free == {s \in 0..(SlotCount - 1) :
                    s \notin Slots(gamepads) /\ s \notin LockedKeys}
    IN  IF free # {} THEN Min(free) ELSE Len(gamepads)

\* The slots find_locked_slot may return for this name: the first entry of
\* the HashMap iteration whose name matches, in an unspecified order
find_locked_slot(name) == {l[1] : l \in {e \in locked_slots : e[2] = name}}

\* The vector sync_joystick_state writes: max_slot + 1 default entries, then
\* each gamepad's state stored at its slot in tracking order, so that the
\* last gamepad of a slot is the one that stays
SnapshotOf(gs) ==
    [i \in 1..((IF gs = <<>> THEN 0 ELSE Max(Slots(gs))) + 1) |->
        IF i - 1 \in Slots(gs)
        THEN gs[Max({k \in DOMAIN gs : gs[k].slot = i - 1})].state
        ELSE JoystickStateDefault]

\* A manager call ends with sync_joystick_state under the write lock
Synced(gs) ==
    /\ joystick_lock = "free"
    /\ gamepads' = gs
    /\ joystick_state' = SnapshotOf(gs)
    /\ last_op' = [op |-> "sync_joystick_state", arg |-> 0, ds |-> ds_state]
    /\ pkt' = NoPkt
    /\ UNCHANGED <<ds_state, robot_state, sequence, last_recv, send_socket,
                   recv_socket, target_ip, frames, last_seq, oneshot_cmds,
                   scenario, diag, telemetry_vars, loop_vars, host_vars>>

\* poll: EventType::Connected for a device that is not tracked
Connected(id) ==
    /\ \A i \in DOMAIN gamepads : gamepads[i].gilrs_id # id
    /\ \E slot \in IF find_locked_slot(DeviceName(id)) # {}
                    THEN find_locked_slot(DeviceName(id))
                    ELSE {first_available_slot} :
          Synced(Append(gamepads, TrackedGamepad(id, slot)))
    /\ UNCHANGED locked_slots

\* Disconnected, with the reservation of the vacated slot released
Disconnected_ReleasingLock(id) ==
    /\ \E i \in DOMAIN gamepads : gamepads[i].gilrs_id = id
    /\ Synced(SelectSeq(gamepads, LAMBDA g : g.gilrs_id # id))
    /\ locked_slots' =
          {l \in locked_slots :
              \A i \in DOMAIN gamepads :
                  gamepads[i].gilrs_id = id => gamepads[i].slot # l[1]}

\* poll: EventType::Disconnected
Disconnected(id) ==
    /\ \E i \in DOMAIN gamepads : gamepads[i].gilrs_id = id
    /\ Synced(SelectSeq(gamepads, LAMBDA g : g.gilrs_id # id))
    /\ UNCHANGED locked_slots

\* iter_mut().find(|g| g.gilrs_id == id): 0 for None
Tracking(id) ==
    IF \E i \in DOMAIN gamepads : gamepads[i].gilrs_id = id
    THEN Min({i \in DOMAIN gamepads : gamepads[i].gilrs_id = id})
    ELSE 0

\* poll: EventType::ButtonChanged(button, value, _)
ButtonChanged(id, button, value) ==
    /\ LET gi == Tracking(id)
           pressed == 2 * value.num > value.den
       IN  IF gi = 0
           THEN Synced(gamepads)
           ELSE LET gp == gamepads[gi]
                    latched ==
                        [gp EXCEPT
                           !.dpad_up = IF button = "DPadUp" THEN pressed ELSE @,
                           !.dpad_right =
                               IF button = "DPadRight" THEN pressed ELSE @,
                           !.dpad_down =
                               IF button = "DPadDown" THEN pressed ELSE @,
                           !.dpad_left =
                               IF button = "DPadLeft" THEN pressed ELSE @]
                    idx == button_index(button)
                    buttons ==
                        IF idx # -1 /\ idx < Len(gp.state.buttons)
                        THEN [gp.state.buttons EXCEPT ![idx + 1] = pressed]
                        ELSE gp.state.buttons
                    povs ==
                        IF gp.state.povs # <<>>
                        THEN [gp.state.povs EXCEPT
                                ![1] = dpad_to_pov(latched.dpad_up,
                                                   latched.dpad_right,
                                                   latched.dpad_down,
                                                   latched.dpad_left)]
                        ELSE gp.state.povs
                IN  Synced([gamepads EXCEPT
                              ![gi] = [latched EXCEPT !.state.buttons = buttons,
                                                      !.state.povs = povs]])
    /\ UNCHANGED locked_slots

\* poll: EventType::AxisChanged(axis, value, _)
AxisChanged(id, axis, value) ==
    /\ LET gi == Tracking(id)
           idx == axis_index(axis)
       IN  IF gi # 0 /\ idx # -1 /\ idx < Len(gamepads[gi].state.axes)
           THEN Synced([gamepads EXCEPT ![gi].state.axes[idx + 1] = value])
           ELSE Synced(gamepads)
    /\ UNCHANGED locked_slots

\* position(|g| g.slot == slot): 0 for None
Position(slot) ==
    IF slot \in Slots(gamepads)
    THEN Min({i \in DOMAIN gamepads : gamepads[i].slot = slot})
    ELSE 0

\* move_to_slot, with an occupied target overwritten instead of swapped
move_to_slot_NoSwap(from_slot, to_slot) ==
    /\ IF from_slot = to_slot \/ from_slot >= SlotCount \/ to_slot >= SlotCount
       THEN UNCHANGED <<control_vars, gamepads>>
       ELSE LET fi == Position(from_slot)
            IN  IF fi # 0
                THEN Synced([gamepads EXCEPT ![fi].slot = to_slot])
                ELSE Synced(gamepads)
    /\ UNCHANGED <<locked_slots, telemetry_vars, loop_vars, host_vars>>

move_to_slot(from_slot, to_slot) ==
    /\ IF from_slot = to_slot \/ from_slot >= SlotCount \/ to_slot >= SlotCount
       THEN UNCHANGED <<control_vars, gamepads>>
       ELSE LET fi == Position(from_slot)
                ti == Position(to_slot)
            IN  IF fi # 0 /\ ti # 0
                THEN Synced([gamepads EXCEPT ![fi].slot = to_slot,
                                             ![ti].slot = from_slot])
                ELSE IF fi # 0
                THEN Synced([gamepads EXCEPT ![fi].slot = to_slot])
                ELSE Synced(gamepads)
    /\ UNCHANGED <<locked_slots, telemetry_vars, loop_vars, host_vars>>

lock_slot(slot) ==
    /\ locked_slots' =
          IF slot \in Slots(gamepads)
          THEN {l \in locked_slots : l[1] # slot}
                   \cup {<<slot, gamepads[Position(slot)].name>>}
          ELSE locked_slots
    /\ UNCHANGED <<control_vars, telemetry_vars, loop_vars, host_vars, gamepads>>

unlock_slot(slot) ==
    /\ locked_slots' = {l \in locked_slots : l[1] # slot}
    /\ UNCHANGED <<control_vars, telemetry_vars, loop_vars, host_vars, gamepads>>

\* The manager under gilrs events and the front end's commands.  Device 1
\* is plugged and unplugged at will, device 2 is plugged at any time, the
\* others are plugged in one after the other; all but device 1 stay
Unplugged == {1}
Tracked == {gamepads[i].gilrs_id : i \in DOMAIN gamepads}
Plugged == {1, 2} \cup {id \in Devices : \A d \in Devices \ {1, 2} :
                                            d < id => d \in Tracked}
MoveInputs == {<<0, 1>>, <<2, 2>>, <<1, 6>>}
LockInputs == {0, 6}

NextGamepad ==
    \/ \E id \in Plugged : Connected(id)
    \/ \E id \in Unplugged : Disconnected(id)
    \/ \E m \in MoveInputs : move_to_slot(m[1], m[2])
    \/ \E slot \in LockInputs : lock_slot(slot)
    \/ \E slot \in LockInputs : unlock_slot(slot)

SpecGamepad == Init /\ [][NextGamepad]_vars

\* The manager under reorder_gamepads with every pair of the first two
\* slots, the last slot and the index past it, three devices that come and
\* go, and locks on the first two slots
ReorderDevices == 1..3
ReorderInputs == {0, 1, SlotCount - 1, SlotCount} \X {0, 1, SlotCount - 1, SlotCount}
ReorderLocks == {0, 1}

NextReorder ==
    \/ \E id \in ReorderDevices : Connected(id)
    \/ \E id \in ReorderDevices : Disconnected(id)
    \/ \E m \in ReorderInputs : move_to_slot(m[1], m[2])
    \/ \E slot \in ReorderLocks : lock_slot(slot)
    \/ \E slot \in ReorderLocks : unlock_slot(slot)

SpecReorder == Init /\ [][NextReorder]_vars

\* The manager under input events: two controllers of one model, the first
\* with its D-pad, one button and one axis in use, the second with one
\* button; values on both sides of the 0.5 threshold and on it
InputDevices == 1..2
ButtonInputs ==
    ({1} \X {"DPadUp", "DPadRight", "DPadDown", "DPadLeft", "South"})
        \cup {<<2, "Unknown">>}
ValueInputs == {Frac(0, 1), Frac(1, 2), Frac(1, 1)}
AxisInputs == {<<1, "RightZ", Frac(-1, 1)>>, <<1, "Unknown", Frac(1, 1)>>}

NextInput ==
    \/ \E id \in InputDevices : Connected(id)
    \/ \E id \in InputDevices : Disconnected(id)
    \/ \E b \in ButtonInputs, value \in ValueInputs :
          ButtonChanged(b[1], b[2], value)
    \/ \E a \in AxisInputs : AxisChanged(a[1], a[2], a[3])
    \/ \E m \in {<<0, 1>>} : move_to_slot(m[1], m[2])
    \/ \E slot \in {0} : lock_slot(slot)

SpecInput == Init /\ [][NextInput]_vars

-----------------------------------------------------------------------------
(* Discovery (discovery.rs) *)

\* Text is kept as the sequence of its characters
UpperCase == <<"A", "B", "C", "D", "E", "F", "G", "H", "I", "J", "K", "L", "M",
               "N", "O", "P", "Q", "R", "S", "T", "U", "V", "W", "X", "Y", "Z">>
LowerCase == <<"a", "b", "c", "d", "e", "f", "g", "h", "i", "j", "k", "l", "m",
               "n", "o", "p", "q", "r", "s", "t", "u", "v", "w", "x", "y", "z">>
to_lowercase(s) ==
    [i \in DOMAIN s |->
        IF \E k \in 1..26 : UpperCase[k] = s[i]
        THEN LowerCase[CHOOSE k \in 1..26 : UpperCase[k] = s[i]]
        ELSE s[i]]
contains(s, pat) ==
    \E k \in 0..(Len(s) - Len(pat)) :
        \A i \in 1..Len(pat) : s[k + i] = pat[i]

\* {team} in format!: the decimal digits of a u32
RECURSIVE Decimal(_)
Decimal(n) ==
    LET digit == <<"0", "1", "2", "3", "4", "5", "6", "7", "8", "9">>[(n % 10) + 1]
    IN  IF n < 10 THEN <<digit>> ELSE Append(Decimal(n \div 10), digit)

\* format!("roborio-{team}-frc")
mdns_name(team) ==
    <<"r", "o", "b", "o", "r", "i", "o", "-">> \o Decimal(team)
        \o <<"-", "f", "r", "c">>

\* format!("10.{te}.{am}.2") with te = team / 100 and am = team % 100, kept
\* as the four numbers
StaticIp(team) == <<10, team \div 100, team % 100, 2>>

\* What recv_timeout hands back within its second: a resolved service with
\* its full name and addresses, another ServiceEvent, or an error (nothing
\* received for 1 s, the daemon gone, or the blocking task failed)
ServiceEvents ==
    LET Rio12 == <<"r", "o", "b", "o", "R", "I", "O", "-", "1", "2", "-", "F",
                   "R", "C", ".", "_", "n", "i">>
        Rio4512 == <<"r", "o", "b", "o", "r", "i", "o", "-", "4", "5", "1", "2",
                     "-", "f", "r", "c", ".", "_", "n", "i">>
    IN  {[kind |-> "ServiceResolved", fullname |-> Rio12,
          addresses |-> {<<10, 0, 12, 2>>, <<172, 22, 11, 2>>}],
         [kind |-> "ServiceResolved", fullname |-> Rio12, addresses |-> {}],
         [kind |-> "ServiceResolved", fullname |-> Rio4512,
          addresses |-> {<<10, 45, 12, 7>>}],
         [kind |-> "SearchStarted", fullname |-> <<>>, addresses |-> {}],
         [kind |-> "Err", fullname |-> <<>>, addresses |-> {}]}
DiscoveryTeams == {0, 12, 4512, 25600}

\* result_tx.send(..).await by a caller that receives, then return
Deliver(ip, event) ==
    discovery' = [discovery EXCEPT !.pc = "returned", !.event = event,
                                   !.result_tx = Append(@, ip)]

TookDiscovery ==
    UNCHANGED <<control_vars, telemetry_vars, loop_vars, gamepad_vars, cmd_tx,
                invocations>>

\* The call, up to ServiceDaemon::new()
discover_roborio(team) ==
    /\ discovery.pc \in {"idle", "returned"}
    /\ IF team = 0
       THEN discovery' = [pc |-> "returned", team |-> team, timeout |-> FALSE,
                          event |-> "none", result_tx |-> <<<<127, 0, 0, 1>>>>]
       ELSE discovery' = [pc |-> "new", team |-> team, timeout |-> FALSE,
                          event |-> "none", result_tx |-> <<>>]
    /\ TookDiscovery

\* ServiceDaemon::new(): Err falls through to the static address
ServiceDaemonNew(ok) ==
    /\ discovery.pc = "new"
    /\ IF ok
       THEN discovery' = [discovery EXCEPT !.pc = "browse"]
       ELSE Deliver(StaticIp(discovery.team), "InitErr")
    /\ TookDiscovery

\* mdns.browse(service_type): Ok starts the 5 s sleep and enters the loop
Browse(ok) ==
    /\ discovery.pc = "browse"
    /\ IF ok
       THEN discovery' = [discovery EXCEPT !.pc = "select"]
       ELSE Deliver(StaticIp(discovery.team), "BrowseErr")
    /\ TookDiscovery

\* The deadline of the 5 s sleep passes
TimeoutElapsed ==
    /\ discovery.pc = "select"
    /\ ~discovery.timeout
    /\ discovery' = [discovery EXCEPT !.timeout = TRUE]
    /\ TookDiscovery

\* select!, timeout arm: break, then the static address
TimeoutArm ==
    /\ discovery.pc = "select"
    /\ discovery.timeout
    /\ Deliver(StaticIp(discovery.team), "Timeout")
    /\ TookDiscovery

\* Mutant: a resolved service is accepted whatever its name
EventArm_AnyName(event) ==
    /\ discovery.pc = "select"
    /\ CASE event.kind = "ServiceResolved" ->
              IF event.addresses # {}
              THEN \E addr \in event.addresses : Deliver(addr, event.kind)
              ELSE discovery' = [discovery EXCEPT !.event = event.kind]
         [] event.kind = "Err" ->
              Deliver(StaticIp(discovery.team), event.kind)
         [] OTHER -> discovery' = [discovery EXCEPT !.event = event.kind]
    /\ TookDiscovery

\* select!, event arm: the result of recv_timeout(1 s) on the blocking pool
EventArm(event) ==
    /\ discovery.pc = "select"
    /\ CASE event.kind = "ServiceResolved" ->
              IF /\ contains(to_lowercase(event.fullname),
                             to_lowercase(mdns_name(discovery.team)))
                 /\ event.addresses # {}
              THEN \E addr \in event.addresses : Deliver(addr, event.kind)
              ELSE discovery' = [discovery EXCEPT !.event = event.kind]
         [] event.kind = "Err" ->
              Deliver(StaticIp(discovery.team), event.kind)
         [] OTHER -> discovery' = [discovery EXCEPT !.event = event.kind]
    /\ TookDiscovery

DiscoverySteps ==
    \/ \E ok \in BOOLEAN : ServiceDaemonNew(ok)
    \/ \E ok \in BOOLEAN : Browse(ok)

NextDiscovery ==
    \/ \E team \in DiscoveryTeams : discover_roborio(team)
    \/ DiscoverySteps
    \/ TimeoutElapsed
    \/ TimeoutArm
    \/ \E event \in ServiceEvents : EventArm(event)

\* The runtime polls a ready future, time passes, and a ready timeout arm
\* is taken
SpecDiscovery ==
    /\ Init
    /\ [][NextDiscovery]_vars
    /\ WF_vars(DiscoverySteps)
    /\ WF_vars(TimeoutElapsed)
    /\ WF_vars(TimeoutArm)

-----------------------------------------------------------------------------
(* Configuration commands (commands/config.rs) *)

MaxQueued == 3
CmdCapacity == 64

\* A handler goes on to cmd_tx.send(..).await with its command
Invoked(cmd) ==
    /\ cmd \notin invocations
    /\ Len(cmd_tx) + Cardinality(invocations) < MaxQueued
    /\ invocations' = invocations \cup {cmd}
    /\ delivered' = NoMessage
    /\ UNCHANGED <<control_vars, listener, shutdown_rx, stream, power, timer,
                   sending, published, loop_vars, gamepad_vars, discovery,
                   cmd_tx>>

\* The handlers up to their await: the address is sent on the watch channel
set_team_number(team) ==
    /\ target_ip_rx' = [value |-> team_to_ip(team), changed |-> TRUE]
    /\ Invoked([op |-> "SetTeamNumber", arg |-> team])

set_target_ip(ip) ==
    /\ target_ip_rx' = [value |-> ip, changed |-> TRUE]
    /\ Invoked([op |-> "SetTargetIp", arg |-> ip])

\* cmd_tx.send(..).await completes: the command is queued
CmdSend(cmd) ==
    /\ cmd \in invocations
    /\ Len(cmd_tx) < CmdCapacity
    /\ cmd_tx' = Append(cmd_tx, cmd)
    /\ invocations' = invocations \ {cmd}
    /\ UNCHANGED <<control_vars, telemetry_vars, loop_vars, gamepad_vars,
                   discovery>>

\* protocol_loop: cmd_rx.recv() yields the oldest queued command; the
\* SetTeamNumber and SetTargetIp arms
CmdRecv ==
    /\ loop_pc = "select"
    /\ cmd_tx # <<>>
    /\ LET cmd == Head(cmd_tx)
           team == cmd.op = "SetTeamNumber"
       IN  /\ target_ip' = IF team THEN team_to_ip(cmd.arg) ELSE cmd.arg
           /\ robot_state' = IF team THEN RobotStateDefault ELSE robot_state
           /\ ds_state' = IF team THEN [ds_state EXCEPT !.enabled = FALSE]
                                  ELSE ds_state
           /\ last_op' = [op |-> cmd.op, arg |-> cmd.arg, ds |-> ds_state]
    /\ cmd_tx' = Tail(cmd_tx)
    /\ pkt' = NoPkt
    /\ scenario' = 0
    /\ UNCHANGED <<sequence, last_recv, send_socket, recv_socket, frames,
                   last_seq, oneshot_cmds, joystick_state, diag,
                   telemetry_vars, loop_vars, gamepad_vars, discovery,
                   invocations>>

\* The two handlers invoked at will by the front end, each running on its
\* own; the team numbers and addresses of the control loop's inputs
NextConfig ==
    \/ \E team \in TeamInputs : set_team_number(team)
    \/ \E ip \in IpInputs : set_target_ip(ip)
    \/ \E cmd \in invocations : CmdSend(cmd)
    \/ CmdRecv

SpecConfig == Init /\ [][NextConfig]_vars

----------------------------------------------------------------------------
(* logging.rs: console_log_listener and read_console_stream *)

\* The points where the reader waits in a select! with both watch channels
ConnectPcs == {"connecting", "retry_sleep"}
StreamPcs == {"read_size", "read_payload"}

\* A reader step that sends nothing leaves the control loop alone
TookReader ==
    /\ delivered' = NoMessage
    /\ UNCHANGED <<control_vars, loop_vars, gamepad_vars, host_vars, published>>

\* Mutant: the loop does not look at the shutdown value
Continue_NoShutdownCheck ==
    listener' = [pc |-> "connecting", addr |-> target_ip_rx.value,
                 port |-> ConsolePort, size |-> 0]

\* The top of the loop of console_log_listener: return on shutdown, else dial
\* the address the watch channel holds now
Continue ==
    IF shutdown_rx.value
    THEN listener' = [listener EXCEPT !.pc = "returned", !.size = 0]
    ELSE listener' = [pc |-> "connecting", addr |-> target_ip_rx.value,
                      port |-> ConsolePort, size |-> 0]

\* read_console_stream has returned: the stream is dropped and the reader
\* sleeps one second
StreamEnded ==
    /\ listener' = [listener EXCEPT !.pc = "reconnect_sleep", !.size = 0]
    /\ stream' = NoStream
    /\ power' = PowerDataDefault
    /\ timer' = FALSE
    /\ UNCHANGED sending

\* commands/config.rs: set_team_number and set_target_ip send the address
TargetIpSend(ip) ==
    /\ target_ip_rx' = [value |-> ip, changed |-> TRUE]
    /\ UNCHANGED <<listener, shutdown_rx, stream, power, timer, sending>>
    /\ TookReader

\* The holder of shutdown_tx sends true
ShutdownSend ==
    /\ ~shutdown_rx.value
    /\ shutdown_rx' = [value |-> TRUE, changed |-> TRUE]
    /\ UNCHANGED <<listener, target_ip_rx, stream, power, timer, sending>>
    /\ TookReader

\* The deadline of the pending sleep passes
TimerFires ==
    /\ listener.pc \in {"retry_sleep", "reconnect_sleep"}
    /\ ~timer
    /\ timer' = TRUE
    /\ UNCHANGED <<listener, target_ip_rx, shutdown_rx, stream, power, sending>>
    /\ TookReader

\* TcpStream::connect returned Ok: read_console_stream starts on the stream
ConnectOk(bytes) ==
    /\ listener.pc = "connecting"
    /\ listener' = [listener EXCEPT !.pc = "read_size"]
    /\ stream' = [bytes |-> bytes, pos |-> 0]
    /\ power' = PowerDataDefault
    /\ UNCHANGED <<target_ip_rx, shutdown_rx, timer, sending>>
    /\ TookReader

\* TcpStream::connect returned Err: the inner select! with the 2 s sleep
ConnectErr ==
    /\ listener.pc = "connecting"
    /\ listener' = [listener EXCEPT !.pc = "retry_sleep"]
    /\ timer' = FALSE
    /\ UNCHANGED <<target_ip_rx, shutdown_rx, stream, power, sending>>
    /\ TookReader

\* target_ip_rx.changed() completed in a select!
TargetChanged ==
    /\ listener.pc \in ConnectPcs \cup StreamPcs
    /\ target_ip_rx.changed
    /\ target_ip_rx' = [target_ip_rx EXCEPT !.changed = FALSE]
    /\ UNCHANGED shutdown_rx
    /\ IF listener.pc \in ConnectPcs
       THEN Continue /\ UNCHANGED <<stream, power, timer, sending>>
       ELSE StreamEnded
    /\ TookReader

\* shutdown_rx.changed() completed in a select!
ShutdownChanged ==
    /\ listener.pc \in ConnectPcs \cup StreamPcs
    /\ shutdown_rx.changed
    /\ shutdown_rx' = [shutdown_rx EXCEPT !.changed = FALSE]
    /\ UNCHANGED target_ip_rx
    /\ IF listener.pc \in ConnectPcs
       THEN /\ listener' = [listener EXCEPT !.pc = "returned"]
            /\ UNCHANGED <<stream, power, timer, sending>>
       ELSE StreamEnded
    /\ TookReader

\* The 2 s sleep of the inner select! completed
RetryElapsed ==
    /\ listener.pc = "retry_sleep"
    /\ timer
    /\ Continue
    /\ UNCHANGED <<target_ip_rx, shutdown_rx, stream, power, timer, sending>>
    /\ TookReader

\* The 1 s sleep after read_console_stream completed
ReconnectElapsed ==
    /\ listener.pc = "reconnect_sleep"
    /\ timer
    /\ Continue
    /\ UNCHANGED <<target_ip_rx, shutdown_rx, stream, power, timer, sending>>
    /\ TookReader

Available == Len(stream.bytes) - stream.pos

\* stream.read_u16() returned Ok(size)
ReadSize ==
    /\ listener.pc = "read_size"
    /\ Available >= 2
    /\ LET size == U16Be(stream.bytes, stream.pos)
       IN  listener' = IF size = 0 \/ size > MaxRecordSize
                       THEN listener
                       ELSE [listener EXCEPT !.pc = "read_payload", !.size = size]
    /\ stream' = [stream EXCEPT !.pos = @ + 2]
    /\ UNCHANGED <<target_ip_rx, shutdown_rx, power, timer, sending>>
    /\ TookReader

\* stream.read_exact(&mut payload) returned Ok: the record is dispatched
ReadPayload ==
    /\ listener.pc = "read_payload"
    /\ Available >= listener.size
    /\ LET payload == SubSeq(stream.bytes, stream.pos + 1,
                             stream.pos + listener.size)
           p == ApplyPower(payload[1], From(payload, 1), power)
           message == Dispatch(payload, p)
       IN  /\ power' = p
           /\ sending' = message
           /\ listener' = [listener EXCEPT
                             !.pc = IF message = NoMessage THEN "read_size"
                                    ELSE "send",
                             !.size = 0]
    /\ stream' = [stream EXCEPT !.pos = @ + listener.size]
    /\ UNCHANGED <<target_ip_rx, shutdown_rx, timer>>
    /\ TookReader

\* A read returned Err (end of file, reset)
StreamError ==
    /\ listener.pc \in StreamPcs
    /\ StreamEnded
    /\ UNCHANGED <<target_ip_rx, shutdown_rx>>
    /\ TookReader

\* The channel has room: send(..).await completed
Send ==
    /\ listener.pc = "send"
    /\ delivered' = sending
    /\ published' = IF sending.kind = "power" THEN sending.data ELSE published
    /\ sending' = NoMessage
    /\ listener' = [listener EXCEPT !.pc = "read_size"]
    /\ UNCHANGED <<target_ip_rx, shutdown_rx, stream, power, timer>>
    /\ UNCHANGED <<control_vars, loop_vars, gamepad_vars, host_vars>>

\* The steps of the reader on an open or opening connection
ReaderSteps ==
    \/ ConnectErr
    \/ TargetChanged
    \/ ShutdownChanged
    \/ RetryElapsed
    \/ ReconnectElapsed
    \/ ReadSize
    \/ ReadPayload
    \/ StreamError
    \/ Send

\* The steps of the reader itself
ReaderNext ==
    \/ \E bytes \in Streams : ConnectOk(bytes)
    \/ ReaderSteps

NextTelemetry ==
    \/ ReaderNext
    \/ \E ip \in ConsoleIps : TargetIpSend(ip)
    \/ ShutdownSend
    \/ TimerFires

SpecTelemetry == Init /\ [][NextTelemetry]_vars

\* The steps the reader takes by itself once a future of its select! or
\* sleep is ready; the outcome of connect and a read error are the network's
ReaderProgress ==
    \/ TargetChanged
    \/ ShutdownChanged
    \/ RetryElapsed
    \/ ReconnectElapsed
    \/ ReadSize
    \/ ReadPayload
    \/ Send

\* Shutdown at every point of the reader: one stream with a console record
\* and a power record, and one new address
ShutdownStreams ==
    {Record(12, <<63, 128, 0, 0, 0, 7, 104, 105, 10>>) \o Record(4, <<0, 6, 0, 7>>)}

NextShutdown ==
    \/ \E bytes \in ShutdownStreams : ConnectOk(bytes)
    \/ ReaderSteps
    \/ \E ip \in {<<10, 2, 54, 2>>} : TargetIpSend(ip)
    \/ ShutdownSend
    \/ TimerFires

\* The reader under the runtime's scheduling: a task whose future is ready is
\* polled, time passes, and the receivers of the output channels keep
\* draining them (Send is a step of ReaderProgress)
SpecShutdown ==
    /\ Init
    /\ [][NextShutdown]_vars
    /\ WF_vars(ReaderProgress)
    /\ WF_vars(TimerFires)

----------------------------------------------------------------------------
(* Properties *)

\* The step just taken was a 20 ms tick / built a frame
TickStep == last_op'.op = "SendTick"
FrameStep == pkt' # NoPkt

\* RobotState as the watchdog leaves it
Down(rs) ==
    /\ ~rs.connected
    /\ rs.battery_voltage = 0
    /\ ~rs.code_running
    /\ ~rs.enabled

\* C1 (as claimed): no frame with the enabled bit (control bit 2) is built
\* while RobotState.connected is false.
C1_NoEnabledFrameWhileDisconnected ==
    [][(FrameStep /\ ~robot_state.connected) => ~PktEnabled']_vars

\* C2: in every reachable state DsState.enabled implies not DsState.estop, and
\* no frame has both control bit 7 (estop) and control bit 2 (enabled) set.
C2_EnabledImpliesNotEstop ==
    /\ ds_state.enabled => ~ds_state.estop
    /\ Sent => ~(PktEstop /\ PktEnabled)

\* C2 witness: EStop was applied to an enabled DsState.
C2_Witness ==
    /\ last_op.op = "EStop"
    /\ last_op.ds.enabled
    /\ ds_state.estop
    /\ ~ds_state.enabled

\* C3: while DsState.estop is set, every step other than RebootRio and a
\* send tick at which the watchdog has expired leaves estop set and enabled
\* clear (in particular Enable, SetMode and SetAlliance do).
C3_EstopSticky ==
    [][(/\ ds_state.estop
        /\ last_op'.op # "RebootRio"
        /\ ~(TickStep /\ send_socket /\ WatchdogExpired(last_recv)))
       => (ds_state'.estop /\ ~ds_state'.enabled)]_vars

\* C3 witness: Enable was applied while E-Stopped and was rejected.
C3_Witness ==
    /\ last_op.op = "Enable"
    /\ last_op.ds.estop
    /\ ds_state.estop
    /\ ~ds_state.enabled

C5_Original ==
    [][(TickStep /\ WatchdogExpired(last_recv)) => ~ds_state'.estop]_vars

\* C5 (amended): a send tick at which more than 1 s has elapsed since the last
\* inbound frame clears DsState.estop if the send socket is bound and
\* RobotState.connected was true before the tick, and otherwise leaves
\* DsState.estop as it was.
C5_WatchdogClearsEstopIfConnected ==
    [][(TickStep /\ WatchdogExpired(last_recv))
       => IF send_socket /\ robot_state.connected
          THEN ~ds_state'.estop
          ELSE ds_state'.estop = ds_state.estop]_vars

\* C5 witness: the tick built a frame with the estop bit and its watchdog
\* cleared estop.
C5_Witness ==
    /\ last_op.op = "SendTick"
    /\ Sent
    /\ PktEstop
    /\ last_op.ds.estop
    /\ ~ds_state.estop

\* C6 (as claimed): an Enable applied while RobotState.connected is false
\* changes nothing of DsState.
C6_EnableDroppedWhileDisconnected ==
    [][(last_op'.op = "Enable" /\ ~robot_state.connected)
       => ds_state' = ds_state]_vars

\* C7: after SetMode(m) DsState.enabled is false and DsState.mode is m, and a
\* frame built right after it carries mode m with the enabled bit clear.
C7_SetModeDisables ==
    /\ [](last_op.op = "SetMode"
            => (~ds_state.enabled /\ ds_state.mode = last_op.arg))
    /\ [][(last_op.op = "SetMode" /\ FrameStep)
            => (~PktEnabled' /\ PktControl' % 4 = to_bits(last_op.arg))]_vars

\* C7 witness: SetMode(m) was applied to an enabled DsState whose mode was m.
C7_Witness ==
    /\ last_op.op = "SetMode"
    /\ last_op.ds.enabled
    /\ last_op.ds.mode = last_op.arg
    /\ ~ds_state.enabled

\* C8: a frame has request bit 3 (resp. bit 2) set exactly if RebootRio (resp.
\* RestartCode) was applied since the previous frame, and after the tick that
\* built it both request flags of DsState are false.
C8_OneShotRequests ==
    [][FrameStep
       => /\ PktReboot' <=> ("RebootRio" \in oneshot_cmds)
          /\ PktRestart' <=> ("RestartCode" \in oneshot_cmds)
          /\ ~ds_state'.request_reboot
          /\ ~ds_state'.request_restart_code]_vars

\* C8 witness: a frame carrying both request bits has just been built and the
\* flags are clear.
C8_Witness ==
    /\ Sent
    /\ PktReboot
    /\ PktRestart
    /\ ~ds_state.request_reboot
    /\ ~ds_state.request_restart_code

\* C9: RebootRio sets estop=false, enabled=false and the reboot flag; after
\* EStop then RebootRio with no command in between, the next frame has the
\* estop bit clear and request bit 3 set, and the frame after it (no command
\* in between) has request byte 0.
C9_RebootClearsEstop ==
    [][/\ (last_op'.op = "RebootRio")
            => (/\ ~ds_state'.estop
                /\ ~ds_state'.enabled
                /\ ds_state'.request_reboot)
       /\ (scenario = 2 /\ FrameStep) => (~PktEstop' /\ PktReboot')
       /\ (scenario = 3 /\ FrameStep) => PktRequest' = 0]_vars

\* C9 witness: EStop, RebootRio, a frame and a second frame have happened.
C9_Witness ==
    /\ scenario = 4
    /\ Sent
    /\ PktRequest = 0

C11_Ipv4(ip) == Len(ip) = 4 /\ \A i \in 1..4 : ip[i] \in 0..255

C12_TargetChangeResetsStatus ==
    [][last_op'.op \in {"SetTeamNumber", "SetTargetIp"}
            => robot_state' = RobotStateDefault]_vars

\* The bytes of one joystick's tag data, counted from the joystick
C13_Payload(js) ==
    1 + Len(js.axes) + 1 + ((Len(js.buttons) + 7) \div 8) + 1 + 2 * Len(js.povs)

\* The joysticks encoded into a frame: the first six of the snapshot
C13_Encoded == IF Len(joystick_state) < 6 THEN Len(joystick_state) ELSE 6

\* 0-based offset of the k-th joystick record (k = C13_Encoded + 1: of what
\* follows the joystick records)
RECURSIVE C13_Offset(_)
C13_Offset(k) ==
    IF k = 1 THEN 6
    ELSE C13_Offset(k - 1) + 2 + C13_Payload(joystick_state[k - 1])

\* The frame is the header, one record of 2 + payload bytes per joystick, and
\* on DateTime frames a record of 2 + 10 bytes
C13_Layout ==
    /\ \A k \in 1..C13_Encoded : pkt.bytes[C13_Offset(k) + 2] = 12
    /\ \/ Len(pkt.bytes) = C13_Offset(C13_Encoded + 1)
       \/ /\ Len(pkt.bytes) = C13_Offset(C13_Encoded + 1) + 12
          /\ pkt.bytes[C13_Offset(C13_Encoded + 1) + 2] = 15
          /\ pkt.bytes[C13_Offset(C13_Encoded + 1) + 1] = 1 + 10

C14_ButtonPos(k) == C13_Offset(k) + 3 + Len(joystick_state[k].axes) + 1
C14_PovPos(k) ==
    C14_ButtonPos(k) + ((Len(joystick_state[k].buttons) + 7) \div 8) + 1

\* The i16 held big-endian in two bytes
C14_I16(hi, lo) ==
    IF hi * 256 + lo >= 32768 THEN hi * 256 + lo - 65536 ELSE hi * 256 + lo

\* C14: in every frame each joystick record carries the button count n, then
\* ceil(n/8) bytes in which button i is bit (7 - i mod 8) of byte floor(i/8)
\* and the unused low bits of the last byte are 0, then the POV count and
\* each POV as a big-endian i16; 16 buttons with 0 and 7 pressed give
\* 0x81, 0x00 and POV 180 gives 0x00, 0xB4.
C14_ButtonAndPovPacking ==
    Sent =>
      \A k \in 1..C13_Encoded :
        LET js == joystick_state[k]
            n == Len(js.buttons)
        IN  /\ pkt.bytes[C14_ButtonPos(k)] = n
            /\ \A j \in 0..(((n + 7) \div 8) - 1) : \A b \in 0..7 :
                 BitSet(pkt.bytes[C14_ButtonPos(k) + 1 + j], 7 - b)
                   <=> (8 * j + b < n /\ js.buttons[8 * j + b + 1])
            /\ pkt.bytes[C14_PovPos(k)] = Len(js.povs)
            /\ \A v \in 1..Len(js.povs) :
                 C14_I16(pkt.bytes[C14_PovPos(k) + 2 * v - 1],
                         pkt.bytes[C14_PovPos(k) + 2 * v]) = js.povs[v]
            /\ js = JoystickStops
                 => /\ SubSeq(pkt.bytes, C14_ButtonPos(k) + 1,
                              C14_ButtonPos(k) + 2) = <<129, 0>>
                    /\ SubSeq(pkt.bytes, C14_PovPos(k) + 1,
                              C14_PovPos(k) + 2) = <<0, 180>>

\* A frame carrying 16 buttons with buttons 0 and 7 pressed and POV 180
C14_Witness ==
    /\ Sent
    /\ joystick_state = <<JoystickStops>>
    /\ SubSeq(pkt.bytes, 16, 21) = <<16, 129, 0, 1, 0, 180>>

\* clamp(x, -1, 1) * 127 rounded to the nearest integer, halves away from zero
C15_Round(x) ==
    LET c == IF x.num > x.den THEN Frac(1, 1)
             ELSE IF x.num < -x.den THEN Frac(-1, 1)
             ELSE x
        p == 2 * c.num * 127
        q == 2 * c.den
    IN  IF p >= 0 THEN (p + c.den) \div q ELSE -(((-p) + c.den) \div q)

\* The byte read as an i8
C15_I8(byte) == IF byte >= 128 THEN byte - 256 ELSE byte

\* C15: in every frame each axis value x is carried as the i8
\* round(clamp(x, -1, 1) * 127), so the byte is within [-127, 127], also for
\* x outside [-1, 1] and for products with a fractional part of 0.5 or more.
C15_AxisQuantisation ==
    Sent =>
      \A k \in 1..C13_Encoded : \A i \in 1..Len(joystick_state[k].axes) :
        LET byte == C15_I8(pkt.bytes[C13_Offset(k) + 3 + i])
        IN  /\ byte = C15_Round(joystick_state[k].axes[i])
            /\ byte \in -127..127

\* The frame carries a DateTime (0x0F) record after its joystick records
C16_HasDateTime ==
    /\ Len(pkt.bytes) > C13_Offset(C13_Encoded + 1)
    /\ pkt.bytes[C13_Offset(C13_Encoded + 1) + 2] = 15

\* C16: the frame of send tick k (k = 0 for the first frame) contains a
\* DateTime record if and only if k mod 50 = 0, also after the u16 sequence
\* number has wrapped.
C16_DateTimeEvery50thTick ==
    Sent => (C16_HasDateTime <=> (frames - 1) % 50 = 0)

\* C17: a datagram shorter than 7 bytes changes no state of the control loop:
\* RobotState, DiagnosticData and the time of the last inbound frame that
\* the watchdog reads are all unchanged.
C17_ShortFrameDropped ==
    [][(last_op'.op = "Receive" /\ Len(last_op'.arg) < 7)
            => UNCHANGED <<robot_state, diag, last_recv>>]_vars

\* C18: a frame of 7 bytes or more marks the robot connected and sets
\* estopped, brownout, enabled and mode from bits 7, 4, 2 and 0-1 of byte 3,
\* codeRunning from bit 5 of byte 4 and the battery voltage to
\* byte 5 + byte 6 / 256 (kept in units of 1/256 V); the frame with status
\* 0x04 and battery bytes 0x0C, 0x80 gives connected, enabled and 12.5 V,
\* and leaves the station as the commands before it set it.
C18_InboundDecode ==
    (last_op.op = "Receive" /\ Len(last_op.arg) >= 7) =>
        LET status == last_op.arg[4]
            trace == last_op.arg[5]
        IN  /\ robot_state.connected
            /\ robot_state.estopped <=> status >= 128
            /\ robot_state.brownout <=> status % 32 >= 16
            /\ robot_state.enabled <=> status % 8 >= 4
            /\ robot_state.mode = (CASE status % 4 = 2 -> "Autonomous"
                                     [] status % 4 = 1 -> "Test"
                                     [] OTHER -> "Teleoperated")
            /\ robot_state.code_running <=> trace % 64 >= 32
            /\ robot_state.battery_voltage = 256 * last_op.arg[6] + last_op.arg[7]
            /\ ds_state = last_op.ds
            /\ (status = 4 /\ last_op.arg[6] = 12 /\ last_op.arg[7] = 128)
                 => /\ robot_state.enabled
                    /\ 2 * robot_state.battery_voltage = 25 * 256

\* After SetTeamNumber(0), SetMode(Teleoperated), Enable: the frame with
\* status 0x04 and battery 0x0C, 0x80 has been received
C18_Witness ==
    /\ last_op.op = "Receive"
    /\ last_op.arg = FrameEnabled
    /\ target_ip = <<127, 0, 0, 1>>
    /\ ds_state.mode = "Teleoperated"
    /\ ds_state.enabled
    /\ robot_state.connected
    /\ robot_state.enabled
    /\ robot_state.battery_voltage = 3200

\* The step just taken received a frame of 7 bytes or more
FullFrameStep == last_op'.op = "Receive" /\ Len(last_op'.arg) >= 7

\* The u32 held big-endian at bytes 10..13 of the frame: the data of a
\* record that begins at byte 8
C19_DataAt10(data) ==
    ((data[11] * 256 + data[12]) * 256 + data[13]) * 256 + data[14]

\* C19 (as claimed): tag records are parsed from byte 7: a disk record that
\* begins at byte 7 of an inbound frame is applied to DiagnosticData.
C19_Original ==
    [][(FullFrameStep /\ last_op'.arg = FrameHeader \o TagDisk42)
            => diag'.disk_usage = 42]_vars

\* C19 (amended): tag records are parsed from byte 8, byte 7 is skipped: a
\* disk or RAM record that begins at byte 8 of an inbound frame is applied to
\* DiagnosticData; a frame of at most 8 bytes, and the frame whose only
\* record begins at byte 7, leave DiagnosticData unchanged.
C19_TagsFromByte8 ==
    [][FullFrameStep =>
         LET data == last_op'.arg
         IN  /\ (Len(data) >= 14 /\ data[9] = 5 /\ data[10] = 4)
                  => diag'.disk_usage = C19_DataAt10(data)
             /\ (Len(data) >= 14 /\ data[9] = 5 /\ data[10] = 6)
                  => diag'.ram_usage = C19_DataAt10(data)
             /\ Len(data) <= 8 => diag' = diag
             /\ data = FrameHeader \o TagDisk42 => diag' = diag]_vars

\* The frame whose disk record begins at byte 8 has been received and applied
C19_Witness ==
    /\ last_op.op = "Receive"
    /\ last_op.arg = FrameHeader \o <<0>> \o TagDisk42
    /\ diag.disk_usage = 42

\* C20: parse_inbound_packet never indexes beyond the frame, whatever the
\* datagram (length 0 to 1024); a zero size byte, or a size that runs past
\* the end, stops the tag loop: the header and the records before it stay
\* applied, the records after it are not applied, and the frames that follow
\* are parsed as usual.
C20_ParserStaysInBounds ==
    [][last_op'.op = "Receive" =>
         LET data == last_op'.arg
         IN  /\ ParseReads(data) < Len(data)
             /\ Len(data) < 7 => UNCHANGED <<robot_state, diag>>
             /\ Len(data) >= 7
                  => /\ robot_state'.connected
                     /\ robot_state'.sequence_number = data[1] * 256 + data[2]
             /\ data = FrameHeader \o <<0>> \o TagDisk7 \o TagRam \o <<0>> \o TagCan
                  => /\ diag'.disk_usage = 7
                     /\ diag'.ram_usage = 1065353216
                     /\ diag'.can_utilization = diag.can_utilization
                     /\ diag'.can_bus_off = diag.can_bus_off
                     /\ diag'.can_tx_full = diag.can_tx_full
             /\ data = FrameHeader \o <<0>> \o TagDisk7 \o <<9, 6, 1, 2>>
                  => /\ diag'.disk_usage = 7
                     /\ diag'.ram_usage = diag.ram_usage
             /\ data \in {FrameHeader \o <<0>> \o <<200>>, FrameHeader \o <<0>> \o <<1>>}
                  => diag' = diag
             /\ data = FrameHeader \o <<0>> \o TagCan
                  => (diag'.can_bus_off = 3 /\ diag'.can_tx_full = 9)]_vars

\* A CAN record applied by a frame that follows a frame cut short by a size
\* byte running past its end (disk 7 applied, RAM record not)
C20_Witness ==
    /\ last_op.op = "Receive"
    /\ last_op.arg = FrameHeader \o <<0>> \o TagCan
    /\ diag.can_bus_off = 3
    /\ diag.disk_usage = 7
    /\ diag.ram_usage = 0

----------------------------------------------------------------------------
(* The telemetry reader *)

\* A change of the target address or of shutdown not yet seen by the reader
SignalPending == target_ip_rx.changed \/ shutdown_rx.changed

\* C21: both reconnect delays, the 2 s one after a failed connect and the
\* 1 s one after the stream ended, end as soon as the target address changes
\* or shutdown is signalled, without waiting for the timer: while a signal
\* is pending and the timer has not fired, the reader has a step to take
C21_DelaysCancellable ==
    (listener.pc \in {"retry_sleep", "reconnect_sleep"} /\ SignalPending /\ ~timer)
        => ENABLED ReaderNext

\* C22: when the target address changes while the reader is streaming, the
\* reader drops the connection, its next state is connecting (not a delay),
\* and the next connection attempt is made to the new address
C22_AddressChangeWhileStreaming ==
    [][(listener.pc \in StreamPcs /\ target_ip_rx.changed
            /\ ~target_ip_rx'.changed)
        => /\ stream' = NoStream
           /\ listener'.pc = "connecting"
           /\ listener'.addr = target_ip_rx.value]_vars

\* C23: from every state of the reader, once shutdown is true the reader
\* eventually returns, the output channels being drained
C23_ShutdownTerminates == shutdown_rx.value ~> listener.pc = "returned"

\* The reader returned by the test at the top of its loop: the shutdown
\* arrived where no select! was listening for it
C23_Witness == listener.pc = "returned" /\ shutdown_rx.changed

\* The offsets at which records start in bytes, from the record at offset k
\* on: a record is its size field and size further bytes
RECURSIVE C24_Boundaries(_, _)
C24_Boundaries(bytes, k) ==
    IF k + 2 > Len(bytes) THEN {k}
    ELSE {k} \cup C24_Boundaries(bytes, k + 2 + U16Be(bytes, k))

\* C24: a record of size 0 or of a size above 32768 is skipped: it produces
\* no event, the reader stays streaming, and the next record is parsed at its
\* boundary, so every size field the reader reads is the start of a record
C24_RecordsSkipped ==
    listener.pc = "read_size" => stream.pos \in C24_Boundaries(stream.bytes, 0)

\* The step that reads the payload of a record with tag 0x0B, and the data
\* of that record: the payload after the tag byte
C25_Step ==
    /\ listener.pc = "read_payload"
    /\ stream'.pos = stream.pos + listener.size
    /\ stream.bytes[stream.pos + 1] = 11

C25_Data == SubSeq(stream.bytes, stream.pos + 2, stream.pos + listener.size)

\* s without its trailing whitespace
C25_Strip(s) ==
    LET keep == {k \in 1..Len(s) : s[k] \notin Whitespace}
    IN  IF keep = {} THEN <<>>
        ELSE SubSeq(s, 1, CHOOSE k \in keep : \A j \in keep : j <= k)

\* The string whose u16 length prefix is at offset off, and the offset after it
C25_After(data, off) == off + 2 + U16Be(data, off)
C25_String(data, off) == C25_Strip(SubSeq(data, off + 3, C25_After(data, off)))

\* The three strings of an error record lie inside its data
C25_Complete(data) ==
    /\ Len(data) >= ErrorHeaderLen + 2
    /\ C25_After(data, ErrorHeaderLen) + 2 <= Len(data)
    /\ C25_After(data, C25_After(data, ErrorHeaderLen)) + 2 <= Len(data)
    /\ C25_After(data, C25_After(data, C25_After(data, ErrorHeaderLen))) <= Len(data)

\* details [" @ " location] ["\n" callstack]
C25_Message(data) ==
    LET details == C25_String(data, ErrorHeaderLen)
        location == C25_String(data, C25_After(data, ErrorHeaderLen))
        callstack == C25_String(data, C25_After(data, C25_After(data, ErrorHeaderLen)))
    IN  details
        \o (IF location = <<>> THEN <<>> ELSE <<32, 64, 32>> \o location)
        \o (IF callstack = <<>> THEN <<>> ELSE <<10>> \o callstack)

\* The console message with this text and flag is handed to log_tx
C25_Emits(message, is_error) ==
    /\ sending'.kind = "console"
    /\ sending'.message = message
    /\ sending'.is_error = is_error

\* C25 as stated: every error record with at least 13 data bytes is emitted
\* with the composed message, every one with 6..12 data bytes is emitted
\* stdout-shaped with isError true
C25_Original ==
    [][C25_Step =>
        /\ (Len(C25_Data) >= ErrorHeaderLen /\ C25_Complete(C25_Data))
              => C25_Emits(C25_Message(C25_Data), C25_Data[13] % 2 = 1)
        /\ Len(C25_Data) \in StdoutHeaderLen..(ErrorHeaderLen - 1)
              => C25_Emits(C25_Strip(From(C25_Data, StdoutHeaderLen)), TRUE)]_vars

\* C25: a 0x0B record with at least 13 data bytes and its three strings
\* complete yields isError = flags & 1 and the message details, " @ "
\* location if location is non-empty, "\n" callstack if callstack is
\* non-empty, each string without its trailing whitespace; a 0x0B record
\* with 6..12 data bytes yields the bytes after the first 6, without trailing
\* whitespace, with isError true; in both cases a message is emitted iff
\* its text is non-empty
C25_ErrorRecord ==
    [][C25_Step =>
        /\ (Len(C25_Data) >= ErrorHeaderLen /\ C25_Complete(C25_Data))
              => IF C25_Message(C25_Data) = <<>> THEN sending' = NoMessage
                 ELSE C25_Emits(C25_Message(C25_Data), C25_Data[13] % 2 = 1)
        /\ Len(C25_Data) \in StdoutHeaderLen..(ErrorHeaderLen - 1)
              => IF C25_Strip(From(C25_Data, StdoutHeaderLen)) = <<>>
                 THEN sending' = NoMessage
                 ELSE C25_Emits(C25_Strip(From(C25_Data, StdoutHeaderLen)), TRUE)]_vars

\* The record "E " / "L" / "C\n" with flags 1 was read and composed
C25_Witness ==
    /\ sending.kind = "console"
    /\ sending.is_error
    /\ sending.message = <<69, 32, 64, 32, 76, 10, 67>>

\* The step that reads the payload of a power record with this tag and at
\* least this many data bytes
C26_Step(tag, len) ==
    /\ listener.pc = "read_payload"
    /\ stream'.pos = stream.pos + listener.size
    /\ stream.bytes[stream.pos + 1] = tag
    /\ listener.size >= 1 + len

C26_Data == SubSeq(stream.bytes, stream.pos + 2, stream.pos + listener.size)

\* C26: a 0x04 record updates only the two disable counts and a 0x05 record
\* only the three rail-fault counts; the snapshot published for a record
\* combines its values with the latest values of the other fields, also
\* across a reconnect: no field returns to 0 unless the robot reported 0
C26_PowerAccumulates ==
    [][/\ C26_Step(4, 4) =>
            /\ sending'.kind = "power"
            /\ sending'.data.disable_count_comms = U16Be(C26_Data, 0)
            /\ sending'.data.disable_count_12v = U16Be(C26_Data, 2)
            /\ sending'.data.rail_faults_6v = published.rail_faults_6v
            /\ sending'.data.rail_faults_5v = published.rail_faults_5v
            /\ sending'.data.rail_faults_3v3 = published.rail_faults_3v3
       /\ C26_Step(5, 6) =>
            /\ sending'.kind = "power"
            /\ sending'.data.rail_faults_6v = U16Be(C26_Data, 0)
            /\ sending'.data.rail_faults_5v = U16Be(C26_Data, 2)
            /\ sending'.data.rail_faults_3v3 = U16Be(C26_Data, 4)
            /\ sending'.data.disable_count_comms = published.disable_count_comms
            /\ sending'.data.disable_count_12v = published.disable_count_12v]_vars

----------------------------------------------------------------------------
(* What the control loop waits for *)

\* C27: a producer whose output channel is full drops the message and goes
\* on: with the event channel full (its consumer stalled) the control loop
\* is back at its select!, where commands are processed and the 20 ms send
\* tick runs
C27_NonBlockingChannels ==
    event_tx = EventCapacity
        => /\ loop_pc # "read_lock" => ENABLED Disable
           /\ (loop_pc # "read_lock" /\ joystick_lock = "free" /\ frames < MaxTicks)
                 => ENABLED SendTick

\* C28: the send tick never blocks on the lock of the joystick snapshot:
\* while the gamepad thread holds the write lock, a tick that is due builds
\* its frame
C28_TickNeverWaitsForLock ==
    (joystick_lock = "write" /\ loop_pc = "select" /\ send_socket
        /\ frames < MaxTicks)
        => ENABLED (SendTick /\ pkt' # NoPkt)

----------------------------------------------------------------------------
(* The gamepad manager *)

\* C29: after any sequence of connects, disconnects, move_to_slot, lock_slot
\* and unlock_slot, every tracked gamepad has a slot in 0..5 and no two
\* tracked gamepads have the same slot
C29_SlotsUniqueInRange ==
    \A i \in DOMAIN gamepads :
        /\ gamepads[i].slot \in 0..(SlotCount - 1)
        /\ \A j \in DOMAIN gamepads : i # j => gamepads[i].slot # gamepads[j].slot

\* C30: every slot of the lock table is unoccupied or occupied by a gamepad
\* whose name is the locked name
C30_LockNameConsistent ==
    \A l \in locked_slots :
        \A i \in DOMAIN gamepads :
            gamepads[i].slot = l[1] => gamepads[i].name = l[2]

\* The gamepad a Connected event has just added, and the state it met
C31_Connects == Len(gamepads') = Len(gamepads) + 1
C31_Added == gamepads'[Len(gamepads')]
C31_Unused ==
    {s \in 0..5 : s \notin Slots(gamepads) /\ s \notin LockedKeys}

\* C31: a connecting device whose name is locked to a slot receives that
\* slot; otherwise it receives the lowest slot of 0..5 that is neither
\* occupied nor locked; when there is none it is placed beyond the existing
\* gamepads, never on an occupied or locked slot
C31_SlotOnConnect ==
    [][C31_Connects =>
        IF \E l \in locked_slots : l[2] = C31_Added.name
        THEN <<C31_Added.slot, C31_Added.name>> \in locked_slots
        ELSE IF C31_Unused # {}
        THEN C31_Added.slot = Min(C31_Unused)
        ELSE /\ C31_Added.slot \notin Slots(gamepads)
             /\ C31_Added.slot \notin LockedKeys]_vars

\* The steps of poll that add or remove a tracked gamepad
C32_Disconnects == Len(gamepads') = Len(gamepads) - 1
C32_LockedTo(name) == {l[1] : l \in {e \in locked_slots : e[2] = name}}

\* C32: connect and disconnect events leave the lock table as it is; with
\* slot 0 locked to A and A unplugged, a device B of another name connects
\* to slot 1 and A then reconnects to slot 0; in general a connecting device
\* whose name is locked is placed on a slot locked to that name, whatever
\* other devices are tracked
C32_LockPersistence ==
    [][/\ C31_Connects \/ C32_Disconnects => locked_slots' = locked_slots
       /\ C31_Connects /\ locked_slots = {<<0, "xbox">>} =>
            /\ gamepads = <<>> /\ C31_Added.name = "pad"
                  => C31_Added.slot = 1
            /\ C31_Added.name = "xbox" /\ 0 \notin Slots(gamepads)
                  => C31_Added.slot = 0
       /\ C31_Connects /\ C32_LockedTo(C31_Added.name) # {} =>
            C31_Added.slot \in C32_LockedTo(C31_Added.name)]_vars

\* A reconnected behind B: B came while slot 0 was reserved, A is back on it
C32_Witness ==
    /\ locked_slots = {<<0, "xbox">>}
    /\ gamepads = <<TrackedGamepad(3, 1), TrackedGamepad(1, 0)>>

\* What the claim lets a call of move_to_slot do to the tracked gamepads
C33_At(slot) == {i \in DOMAIN gamepads : gamepads[i].slot = slot}
C33_Effect(from, to) ==
    IF from \in 0..5 /\ to \in 0..5 /\ from # to /\ C33_At(from) # {}
    THEN IF C33_At(to) # {}
         THEN \E i \in C33_At(from), j \in C33_At(to) :
                 gamepads' = [gamepads EXCEPT ![i].slot = to, ![j].slot = from]
         ELSE \E i \in C33_At(from) :
                 gamepads' = [gamepads EXCEPT ![i].slot = to]
    ELSE gamepads' = gamepads

\* C33: move_to_slot(from, to) with both indices in 0..5 exchanges the slots
\* of two gamepads when both slots are occupied, moves the gamepad to `to`
\* when only `from` is occupied, and in every other case (source empty,
\* from = to, an index beyond 5) leaves the tracked gamepads and their slots
\* as they are; it never changes the lock table
C33_MoveToSlot ==
    [][\A m \in ReorderInputs :
          move_to_slot(m[1], m[2]) =>
              /\ C33_Effect(m[1], m[2])
              /\ locked_slots' = locked_slots]_vars

\* Three devices connected in order to slots 0, 1, 2, the last two swapped
\* since, with slot 1 locked
C33_Witness ==
    /\ gamepads = <<TrackedGamepad(1, 0), TrackedGamepad(2, 2),
                    TrackedGamepad(3, 1)>>
    /\ locked_slots = {<<1, "xbox">>}

\* The compass table of the claim, by the set of directions held
C34_Held(g) ==
    {d \in {"up", "right", "down", "left"} :
        \/ d = "up" /\ g.dpad_up
        \/ d = "right" /\ g.dpad_right
        \/ d = "down" /\ g.dpad_down
        \/ d = "left" /\ g.dpad_left}
C34_Table ==
    <<{"up"}, {"up", "right"}, {"right"}, {"right", "down"}, {"down"},
      {"down", "left"}, {"left"}, {"left", "up"}>>
C34_Pov(held) ==
    IF \E k \in 1..8 : C34_Table[k] = held
    THEN 45 * ((CHOOSE k \in 1..8 : C34_Table[k] = held) - 1)
    ELSE -1

\* C34: POV 0 of every tracked gamepad is the compass angle of its latched
\* D-pad booleans: 0, 45, ..., 315 for up, up+right, right, right+down,
\* down, down+left, left, left+up, and -1 for none held and for every other
\* combination of the 16
C34_DpadToPov ==
    \A i \in DOMAIN gamepads :
        gamepads[i].state.povs = <<C34_Pov(C34_Held(gamepads[i]))>>

\* Left and up held together: the diagonal across the wrap
C34_Witness ==
    \E i \in DOMAIN gamepads :
        /\ C34_Held(gamepads[i]) = {"left", "up"}
        /\ gamepads[i].state.povs = <<315>>

\* C38: the shared joystick snapshot has as many entries as the highest
\* occupied slot plus one (one entry when no gamepad is tracked); entry s is
\* the state of the gamepad tracked in slot s, and the default joystick (6
\* zero axes, 16 released buttons, POV -1) where no gamepad is tracked
C38_SnapshotMatchesSlots ==
    /\ Len(joystick_state) =
          IF gamepads = <<>> THEN 1 ELSE Max(Slots(gamepads)) + 1
    /\ \A i \in DOMAIN gamepads :
          joystick_state[gamepads[i].slot + 1] = gamepads[i].state
    /\ \A s \in DOMAIN joystick_state :
          s - 1 \notin Slots(gamepads) =>
              joystick_state[s] = [axes |-> [k \in 1..6 |-> Frac(0, 1)],
                                   buttons |-> [k \in 1..16 |-> FALSE],
                                   povs |-> <<-1>>]

\* C39: every device name is locked to at most one slot, so that the slot
\* restored to a reconnecting device is determined by the manager state
C39_OneSlotPerName ==
    \A l1 \in locked_slots, l2 \in locked_slots :
        l1[2] = l2[2] => l1[1] = l2[1]

-----------------------------------------------------------------------------
(* protocol_loop without a send socket *)

\* C37: with the send socket unbound, commands are still applied to DsState
\* (EStop latches and disables, SetMode and SetAlliance store their
\* argument), and a send tick builds no frame and leaves the sequence number,
\* DsState with its one-shot request flags, and RobotState as they are; the
\* watchdog not being evaluated, a step other than the SetTeamNumber reset
\* never clears RobotState.connected
C37_TickWithoutSocket ==
    [][~send_socket =>
        /\ TickStep => /\ sequence' = sequence
                       /\ ds_state' = ds_state
                       /\ robot_state' = robot_state
                       /\ pkt' = NoPkt
        /\ last_op'.op = "EStop" => ds_state'.estop /\ ~ds_state'.enabled
        /\ last_op'.op = "SetMode" => ds_state'.mode = last_op'.arg
        /\ last_op'.op = "SetAlliance" => ds_state'.alliance = last_op'.arg
        /\ robot_state.connected /\ last_op'.op # "SetTeamNumber"
              => robot_state'.connected]_vars

\* A tick without a send socket, more than 1 s after the last inbound frame,
\* has left the robot connected and the reboot request pending
C37_Witness ==
    /\ ~send_socket
    /\ last_op.op = "SendTick"
    /\ WatchdogExpired(last_recv)
    /\ robot_state.connected
    /\ ds_state.request_reboot
    /\ last_op.ds.request_reboot

\* C40: SetAlliance, RestartCode and SetTargetIp leave mode, enabled and
\* estop of DsState as they are; SetTeamNumber clears enabled and leaves
\* estop and mode as they are; Disable and EStop leave mode and alliance as
\* they are
C40_CommandFrames ==
    [][/\ last_op'.op \in {"SetAlliance", "RestartCode", "SetTargetIp"} =>
            /\ ds_state'.mode = ds_state.mode
            /\ ds_state'.enabled = ds_state.enabled
            /\ ds_state'.estop = ds_state.estop
       /\ last_op'.op = "SetTeamNumber" =>
            /\ ~ds_state'.enabled
            /\ ds_state'.estop = ds_state.estop
            /\ ds_state'.mode = ds_state.mode
       /\ last_op'.op \in {"Disable", "EStop"} =>
            /\ ds_state'.mode = ds_state.mode
            /\ ds_state'.alliance = ds_state.alliance]_vars

\* An enabled robot has just been retargeted by SetTargetIp and is enabled
C40_Witness ==
    /\ last_op.op = "SetTargetIp"
    /\ last_op.ds.enabled
    /\ ds_state.enabled
    /\ target_ip = last_op.arg

-----------------------------------------------------------------------------
(* Discovery *)

\* The addresses of the services resolved under the team's roboRIO name
C35_Resolved(team) ==
    UNION {e.addresses :
             e \in {s \in ServiceEvents :
                      /\ s.kind = "ServiceResolved"
                      /\ Len(s.fullname) >= Len(mdns_name(team))
                      /\ to_lowercase(SubSeq(s.fullname, 1, Len(mdns_name(team))))
                            = mdns_name(team)}}
C35_Result ==
    /\ Len(discovery.result_tx) = 1
    /\ IF discovery.team = 0
       THEN discovery.result_tx[1] = <<127, 0, 0, 1>>
       ELSE \/ /\ discovery.event = "ServiceResolved"
               /\ discovery.result_tx[1] \in C35_Resolved(discovery.team)
            \/ /\ discovery.event \in {"Timeout", "Err", "InitErr", "BrowseErr"}
               /\ discovery.result_tx[1] =
                     <<10, discovery.team \div 100, discovery.team % 100, 2>>

\* C35: every call of discover_roborio returns, having delivered exactly one
\* address: 127.0.0.1 for team 0, otherwise an address resolved for the
\* team's roboRIO name or, on the timeout or a resolver error, the static
\* address 10.<team/100>.<team%100>.2; nothing is delivered twice
C35_DiscoveryResult ==
    /\ [](Len(discovery.result_tx) <= 1)
    /\ [](discovery.pc = "returned" => C35_Result)
    /\ (discovery.pc \in {"new", "browse", "select"})
          ~> (discovery.pc = "returned")

\* A call for team 4512 ended by the deadline with the static address
C35_Witness ==
    /\ discovery.pc = "returned"
    /\ discovery.team = 4512
    /\ discovery.event = "Timeout"
    /\ discovery.result_tx = <<<<10, 45, 12, 2>>>>

-----------------------------------------------------------------------------
(* Configuration commands *)

\* C36: once every invocation of set_team_number and set_target_ip has
\* completed and the command queue is drained, the target address of the
\* control loop is the address last sent to the telemetry reader on the
\* target-address watch channel
C36_TargetConsistent ==
    invocations = {} /\ cmd_tx = <<>> => target_ip = target_ip_rx.value
====
